---- MODULE Spec2Model ----
(***************************************************************************)
(* A model of the context retrieval and prompt assembly engine of          *)
(* src/src/rag_engine.py: the ContextCache (TTL + oldest-first eviction),  *)
(* RAGEngine.retrieve_context and RAGEngine.build_rag_prompt.              *)
(*                                                                         *)
(* Python strings are TLA+ strings (Len, \o and SubSeq act on them as the  *)
(* Python len, + and slicing do).  The wall clock (datetime.now()) is the  *)
(* variable now, advanced by the environment action Tick; it is assumed    *)
(* not to run backwards.  hashlib.md5 is taken to be collision free, so a  *)
(* cache key is the string that is hashed.                                 *)
(*                                                                         *)
(* The vector store of src/src/vector_db_populator.py (FAISSBackend and    *)
(* VectorDBPopulator) and the session store of src/src/chat_manager.py     *)
(* (ChatSession and ChatManager) are modelled beside it.  A faiss flat L2  *)
(* index is the sequence of its vectors; a session file is the dictionary  *)
(* json.dump wrote, or a partial file when the dump did not finish.  The   *)
(* code takes no lock, so callers running in parallel are modelled one     *)
(* statement at a time (pc, frame).                                        *)
(*                                                                         *)
(* The engine is also modelled on its vector store (retrieve_context over  *)
(* the flat-index store), the store on its other backend (ChromaDBBackend, *)
(* a collection of records by id), and the program src/scripts/rag_chat.py *)
(* (main and chat_loop) on the engine and the session store.               *)
(***************************************************************************)
EXTENDS Integers, Sequences, FiniteSets, TLC

\* ---------------------------------------------------------------- bounds
MaxTime == 2
MaxCacheSize == 2
MaxDocs == 3
MaxHistory == 3
MaxWindow == 3
MaxVectors == 2
MaxSessions == 1
MaxMessages == 2
MaxThreads == 2

\* ------------------------------------------------------ program constants
DefaultTopK == 5
DefaultContextWindow == 2
DefaultCacheTtl == 300
DefaultMaxCacheSize == 50
AbstractCap == 500
ContentCap == 1000
SystemPromptOverhead == 500
HardBudget == 3000
ContextCap == 1500
HistoryCap == 1000
DefaultDimension == 384

VARIABLES
    now,          \* the wall clock read by datetime.now()
    ttl_seconds,  \* ContextCache.ttl_seconds
    max_size,     \* ContextCache.max_size
    cache,        \* ContextCache.cache: the dict's entries in dict order
    ret,          \* the last call made on the engine and what it returned
    trail,        \* the keys set, one after the other, since the cache was empty
    context_window,  \* RAGEngine.context_window
    asm,          \* the values computed by the last build_rag_prompt
    built,        \* the first build_rag_prompt call made: its arguments and result
    pending,      \* the arguments of the build_rag_prompt call a caller is about to make
    installed,    \* the packages the interpreter can import
    index,        \* FAISSBackend.index: None, or the flat index and its vectors
    metadata,     \* FAISSBackend.metadata
    dimension,    \* FAISSBackend.dimension
    encoder,      \* VectorDBPopulator.encoder
    collection,   \* ChromaDBBackend.collection: None, or its records as inserted
    vret,         \* the last call made on the vector store and what it returned
    sessions,     \* the ChatSession objects alive, by session_id
    current_session,  \* ChatManager.current_session: None, or the id of a session
    files,        \* ChatManager.save_dir: what each <session_id>.json holds
    auto_save,    \* ChatManager.auto_save
    uuids,        \* how many values uuid.uuid4() has given
    cret,         \* the last call made on the session store and what it returned
    pc,           \* the statement each thread is at
    frame         \* the local variables of each thread's call

promptVars == <<context_window, asm, built, pending>>
storeVars == <<installed, index, metadata, dimension, encoder, vret, collection>>
chatVars == <<sessions, current_session, files, auto_save, uuids, cret>>
threadVars == <<pc, frame>>
restVars == <<storeVars, chatVars, threadVars>>
engineVars == <<now, ttl_seconds, max_size, cache, ret, trail, context_window, asm,
               built, pending>>
nonStoreVars == <<engineVars, chatVars, threadVars>>
nonChatVars == <<engineVars, storeVars, threadVars>>
vars == <<now, ttl_seconds, max_size, cache, ret, trail, context_window, asm, built,
          pending, restVars>>

\* ------------------------------------------------------------ input sets
Queries == {"a", "a:1"}
TopKs == {1, DefaultTopK}
\* a document found by the vector store: id, distance and metadata
Doc0 == [id |-> 0, distance |-> 0,
         metadata |-> [title |-> "T", authors |-> <<"A">>, abstract |-> "x"]]
ResultLists == {<<>>, <<Doc0>>}
\* the ttl a cache is built with: entries expire at once, or after a second
Ttls == {0, 1}

\* --------------------------------------------------------- ContextCache
\* Optional[List]: None, or a list
None == [some |-> FALSE, val |-> <<>>]
Some(v) == [some |-> TRUE, val |-> v]

_generate_key(query, top_k) == query \o ":" \o ToString(top_k)

\* the position of key in the dict, 0 if it is not a key of it
KeyIndex(c, key) ==
    IF \E i \in 1..Len(c) : c[i].key = key
    THEN CHOOSE i \in 1..Len(c) : c[i].key = key
    ELSE 0

RemoveAt(c, i) == SubSeq(c, 1, i - 1) \o SubSeq(c, i + 1, Len(c))

\* min(self.cache.keys(), key=lambda k: self.cache[k][1]): the first key, in
\* dict order, among those with the smallest timestamp
OldestIndex(c) ==
    CHOOSE i \in 1..Len(c) :
        /\ \A j \in 1..Len(c) : c[i].ts <= c[j].ts
        /\ \A j \in 1..(i - 1) : c[j].ts > c[i].ts

\* (variant: the newest entry is evicted)
EvictNewest(c, size) ==
    IF Len(c) >= size
    THEN RemoveAt(c, CHOOSE i \in 1..Len(c) : \A j \in 1..Len(c) : c[j].ts <= c[i].ts)
    ELSE c
\* (variant: nothing is evicted)
EvictNever(c, size) == c
\* the eviction step of set: the oldest entry goes when the cache is full
Evict(c, size) ==
    IF Len(c) >= size THEN RemoveAt(c, OldestIndex(c)) ELSE c

\* (variant: an existing key keeps its entry)
StoreIfAbsent(c, key, results, t) ==
    IF KeyIndex(c, key) = 0
    THEN Append(c, [key |-> key, results |-> results, ts |-> t])
    ELSE c
\* self.cache[key] = (results, datetime.now()): an existing key keeps its place
Store(c, key, results, t) ==
    LET e == [key |-> key, results |-> results, ts |-> t]
        i == KeyIndex(c, key)
    IN  IF i = 0 THEN Append(c, e) ELSE [c EXCEPT ![i] = e]

\* (variant: a key the cache holds is overwritten without an eviction)
CacheAfterSetInPlace(c, size, query, top_k, results, t) ==
    IF KeyIndex(c, _generate_key(query, top_k)) # 0
    THEN Store(c, _generate_key(query, top_k), results, t)
    ELSE Store(Evict(c, size), _generate_key(query, top_k), results, t)
\* the dict after ContextCache.set(query, top_k, results) at time t
CacheAfterSet(c, size, query, top_k, results, t) ==
    Store(Evict(c, size), _generate_key(query, top_k), results, t)

\* (variants: an entry lives a second longer; an entry of age ttl is expired)
ExpiredLax(ts, t, ttl) == t - ts > ttl + 1
ExpiredStrict(ts, t, ttl) == t - ts >= ttl
\* datetime.now() - timestamp > timedelta(seconds=self.ttl_seconds)
Expired(ts, t, ttl) == t - ts > ttl

\* what ContextCache.get(query, top_k) returns at time t
CacheGetResult(c, ttl, query, top_k, t) ==
    LET i == KeyIndex(c, _generate_key(query, top_k))
    IN  IF i = 0 THEN None
        ELSE IF Expired(c[i].ts, t, ttl) THEN None
        ELSE Some(c[i].results)

\* (variant: a hit stamps the entry with the time of the read)
CacheAfterGetTouch(c, ttl, query, top_k, t) ==
    LET i == KeyIndex(c, _generate_key(query, top_k))
    IN  IF i = 0 THEN c
        ELSE IF Expired(c[i].ts, t, ttl) THEN RemoveAt(c, i)
        ELSE [c EXCEPT ![i].ts = t]
\* the dict after ContextCache.get(query, top_k) at time t
CacheAfterGet(c, ttl, query, top_k, t) ==
    LET i == KeyIndex(c, _generate_key(query, top_k))
    IN  IF i # 0 /\ Expired(c[i].ts, t, ttl) THEN RemoveAt(c, i) ELSE c

get_stats == [size |-> Len(cache), max_size |-> max_size, ttl_seconds |-> ttl_seconds]

\* ------------------------------------------------------- Python values
Min(a, b) == IF a < b THEN a ELSE b
Max(a, b) == IF a > b THEN a ELSE b

\* s * n for a string s of one character
RECURSIVE Rep(_, _)
Rep(s, n) ==
    IF n <= 0 THEN ""
    ELSE IF n = 1 THEN s
    ELSE LET h == Rep(s, n \div 2)
         IN  IF n % 2 = 0 THEN h \o h ELSE h \o h \o s

\* sep.join(parts)
RECURSIVE Join(_, _)
Join(parts, sep) ==
    IF Len(parts) = 0 THEN ""
    ELSE IF Len(parts) = 1 THEN parts[1]
    ELSE parts[1] \o sep \o Join(Tail(parts), sep)

\* s[:n], n >= 0
Prefix(s, n) == SubSeq(s, 1, Min(n, Len(s)))

\* s[start:] for any integer start
SliceFrom(s, start) ==
    LET from == IF start < 0 THEN Max(Len(s) + start, 0) ELSE Min(start, Len(s))
    IN  SubSeq(s, from + 1, Len(s))

\* d.get(key, default); the empty dict is <<>>
DictGet(d, key, default) == IF key \in DOMAIN d THEN d[key] ELSE default

\* --------------------------------------------------------- prompt assembly
NoContextSentinel == "No relevant context found."
AbstractEllipsis == "..."
ContentTruncatedMarker == "... [truncated]"
ContextTruncatedMarker == "\n... [context truncated]"
HistoryTruncatedMarker == "\n... [history truncated]"

\* the record of one retrieved paper
FormatPaper(i, doc) ==
    LET paper == DictGet(doc, "metadata", <<>>)
        title == DictGet(paper, "title", "Unknown Title")
        authors == DictGet(paper, "authors", <<>>)
        abstract0 == DictGet(paper, "abstract", "")
        source == DictGet(paper, "source", "arxiv")
        author_str == IF Len(authors) > 0 THEN Join(authors, ", ") ELSE "Unknown Authors"
        abstract == IF Len(abstract0) > AbstractCap
                    THEN Prefix(abstract0, AbstractCap) \o AbstractEllipsis
                    ELSE abstract0
    IN  "\nPaper " \o ToString(i) \o ": " \o title \o "\nAuthors: " \o author_str
            \o "\nSource: " \o source \o "\nAbstract: " \o abstract \o "\n"

\* RAGEngine._format_context(context_docs)
_format_context(context_docs) ==
    IF Len(context_docs) = 0 THEN NoContextSentinel
    ELSE Join(<<"Relevant Research Papers:">>
                \o [i \in 1..Len(context_docs) |-> FormatPaper(i, context_docs[i])],
              "\n")

\* recent_messages of _format_conversation_history
RecentMessages(history, window) ==
    IF Len(history) > window THEN SliceFrom(history, 0 - window) ELSE history

\* the lines of a message in the history block: none for a role other than
\* user and assistant
FormatMessage(msg) ==
    LET role == DictGet(msg, "role", "user")
        content0 == DictGet(msg, "content", "")
        content == IF Len(content0) > ContentCap
                   THEN Prefix(content0, ContentCap) \o ContentTruncatedMarker
                   ELSE content0
    IN  IF role = "user" THEN <<"Human: " \o content>>
        ELSE IF role = "assistant" THEN <<"Assistant: " \o content>>
        ELSE <<>>

RECURSIVE FormatMessages(_)
FormatMessages(msgs) ==
    IF Len(msgs) = 0 THEN <<>>
    ELSE FormatMessage(Head(msgs)) \o FormatMessages(Tail(msgs))

\* the history block of the messages chosen
RenderHistory(recent_messages) ==
    IF Len(recent_messages) = 0 THEN ""
    ELSE Join(<<"Previous conversation:">> \o FormatMessages(recent_messages), "\n")

\* RAGEngine._format_conversation_history(history); None is the empty history
_format_conversation_history(history, window) ==
    IF Len(history) = 0 THEN ""
    ELSE RenderHistory(RecentMessages(history, window))

\* estimated_length of build_rag_prompt
EstimatedLength(user_query, context_block, history_block) ==
    Len(user_query) + Len(context_block) + Len(history_block) + SystemPromptOverhead

\* (variant: an estimate equal to the budget is over it)
OverBudgetFrom(estimated_length) == estimated_length >= HardBudget
\* estimated_length > 3000
OverBudget(estimated_length) == estimated_length > HardBudget

TruncateContext(context_block, over) ==
    IF over /\ Len(context_block) > ContextCap
    THEN Prefix(context_block, ContextCap) \o ContextTruncatedMarker
    ELSE context_block

TruncateHistory(history_block, over) ==
    IF over /\ Len(history_block) > HistoryCap
    THEN Prefix(history_block, HistoryCap) \o HistoryTruncatedMarker
    ELSE history_block

PromptHead == "You are an intelligent research assistant helping users prepare for meetings by providing insights from recent academic papers. You have access to relevant research papers and should provide accurate, well-informed responses based on the provided context.\n\n"
PromptTail == "\n\nPlease provide a comprehensive and helpful response based on the research papers provided above. If the context doesn't contain enough information to fully answer the question, say so and suggest what additional information might be helpful."

\* (variant: a long query is cut as well)
PromptTextCutQuery(context_section, history_section, user_query) ==
    PromptHead \o context_section \o "\n\n" \o history_section
        \o "\n\nCurrent question: " \o Prefix(user_query, HistoryCap) \o PromptTail
\* the f-string of build_rag_prompt
PromptText(context_section, history_section, user_query) ==
    PromptHead \o context_section \o "\n\n" \o history_section
        \o "\n\nCurrent question: " \o user_query \o PromptTail

\* the values build_rag_prompt computes on the way to the prompt
Assemble(user_query, retrieved_context, conversation_history, window) ==
    LET context_block == _format_context(retrieved_context)
        history_block == _format_conversation_history(conversation_history, window)
        estimated_length == EstimatedLength(user_query, context_block, history_block)
        over == OverBudget(estimated_length)
        context_section == TruncateContext(context_block, over)
        history_section == TruncateHistory(history_block, over)
    IN  [user_query |-> user_query,
         retrieved_context |-> retrieved_context,
         conversation_history |-> conversation_history,
         context_window |-> window,
         context_block |-> context_block,
         history_block |-> history_block,
         estimated_length |-> estimated_length,
         context_section |-> context_section,
         history_section |-> history_section,
         prompt |-> PromptText(context_section, history_section, user_query)]

\* (variant: the time of the call is written into the prompt)
build_rag_prompt_dated(user_query, retrieved_context, conversation_history) ==
    Assemble(user_query, retrieved_context, conversation_history, context_window).prompt
        \o "\n" \o ToString(now)

\* RAGEngine.build_rag_prompt(user_query, retrieved_context, conversation_history)
build_rag_prompt(user_query, retrieved_context, conversation_history) ==
    Assemble(user_query, retrieved_context, conversation_history, context_window).prompt

\* no call of build_rag_prompt was made yet
NoAssembly ==
    [user_query |-> "", retrieved_context |-> <<>>, conversation_history |-> <<>>,
     context_window |-> 0, context_block |-> "", history_block |-> "",
     estimated_length |-> 0, context_section |-> "", history_section |-> "",
     prompt |-> ""]
NoArgs == [waiting |-> FALSE, user_query |-> "", retrieved_context |-> <<>>,
           conversation_history |-> <<>>]
NoBuild == [made |-> FALSE, user_query |-> "", retrieved_context |-> <<>>,
            conversation_history |-> <<>>, context_window |-> 0, prompt |-> "",
            empty |-> TRUE]

\* --------------------------------------------------------- the vector store
\* src/src/vector_db_populator.py: VectorDBPopulator over the FAISSBackend.
\* A vector of len coordinates is its first coordinates (head); the others
\* are 0.  faiss.IndexFlatL2 is the library's flat index: add appends, search
\* returns exactly k (distance, label) pairs by ascending squared L2
\* distance, the order among equal distances being the library's choice, and
\* fills the pairs it has no vector for with the label -1 and the distance
\* FLT_MAX (the largest float32, for which the largest number stands).
Vector(len, head) == [len |-> len, head |-> head]
Coord(v, i) == IF i <= Len(v.head) THEN v.head[i] ELSE 0

RECURSIVE SquaredL2(_, _, _)
SquaredL2(a, b, n) ==
    IF n = 0 THEN 0
    ELSE (Coord(a, n) - Coord(b, n)) * (Coord(a, n) - Coord(b, n)) + SquaredL2(a, b, n - 1)

Distance(a, b) == SquaredL2(a, b, Max(Len(a.head), Len(b.head)))

\* faiss.IndexFlatL2(d)
IndexFlatL2(d) == [d |-> d, xb |-> <<>>]
ntotal(ix) == Len(ix.xb)

\* the orders in which IndexFlatL2.search may rank the stored vectors
RankOrders(ix, x) ==
    {p \in [1..ntotal(ix) -> 1..ntotal(ix)] :
        /\ \A i, j \in 1..ntotal(ix) : i # j => p[i] # p[j]
        /\ \A i, j \in 1..ntotal(ix) :
              i < j => Distance(ix.xb[p[i]], x) <= Distance(ix.xb[p[j]], x)}

FLT_MAX == 2147483647
NoLabel == 0 - 1

\* index.search(x, k): the k pairs (distances[0][i], indices[0][i])
IndexSearch(ix, x, k, order) ==
    [i \in 1..k |->
        IF i <= ntotal(ix)
        THEN [distance |-> Distance(ix.xb[order[i]], x), idx |-> order[i] - 1]
        ELSE [distance |-> FLT_MAX, idx |-> NoLabel]]

\* list[idx] of Python, idx counted from 0 and from the end when negative
InRange(list, idx) == idx < Len(list) /\ idx >= 0 - Len(list)
At(list, idx) == IF idx >= 0 THEN list[idx + 1] ELSE list[Len(list) + idx + 1]

\* what a call on the store ended with: "" when it returned, else the error
Returned == ""

\* the loop of FAISSBackend.search over the pairs found
RECURSIVE CollectResults(_, _)
CollectResults(pairs, md) ==
    IF Len(pairs) = 0 THEN [raised |-> Returned, results |-> <<>>]
    ELSE LET pair == Head(pairs)
             rest == CollectResults(Tail(pairs), md)
         IN  IF ~(pair.idx < Len(md)) THEN rest
             ELSE IF ~InRange(md, pair.idx)
                  THEN [raised |-> "IndexError", results |-> <<>>]
             ELSE IF rest.raised # Returned THEN rest
             ELSE [raised |-> Returned,
                   results |-> <<[id |-> pair.idx, distance |-> pair.distance,
                                  metadata |-> At(md, pair.idx)]>> \o rest.results]

\* FAISSBackend.search(query_vector, top_k)
BackendSearch(ix, md, query_vector, top_k, order) ==
    IF ~ix.some THEN [raised |-> "RuntimeError", results |-> <<>>]
    ELSE IF query_vector.len # ix.val.d \/ top_k < 1
         THEN [raised |-> "AssertionError", results |-> <<>>]
    ELSE CollectResults(IndexSearch(ix.val, query_vector, top_k, order), md)

\* the state FAISSBackend.add_vectors(vectors, metadata) leaves
BackendAdd(ix, md, vectors, new_metadata) ==
    IF ~ix.some THEN [raised |-> "RuntimeError", index |-> ix, metadata |-> md]
    ELSE IF \E i \in 1..Len(vectors) : vectors[i].len # ix.val.d
         THEN [raised |-> "AssertionError", index |-> ix, metadata |-> md]
    ELSE [raised |-> Returned,
          index |-> Some([ix.val EXCEPT !.xb = @ \o vectors]),
          metadata |-> md \o new_metadata]

\* SentenceTransformer(model_name).encode: one vector of DefaultDimension
\* coordinates for a text, the same for the same text
DefaultEncoderModel == "all-MiniLM-L6-v2"
Encode(text) == Vector(DefaultDimension, <<Len(text)>>)
EncodeAll(texts) == [i \in 1..Len(texts) |-> Encode(texts[i])]

\* metadata = [{'text': text, 'index': i} for i, text in enumerate(texts)]
DefaultMetadata(texts) == [i \in 1..Len(texts) |-> [text |-> texts[i], index |-> i - 1]]

\* a query: a str, or a vector
Str(text) == [str |-> TRUE, text |-> text, vector |-> Vector(0, <<>>)]
Vec(vector) == [str |-> FALSE, text |-> "", vector |-> vector]
NoQuery == Str("")

NoStoreCall == [op |-> "none", raised |-> Returned, results |-> <<>>, query |-> NoQuery,
                top_k |-> 0]

\* VectorDBPopulator('faiss').__init__ and FAISSBackend.__init__
InitStore ==
    /\ installed \in SUBSET {"faiss", "sentence_transformers"}
    /\ index = None
    /\ metadata = <<>>
    /\ dimension = None
    /\ collection = None
    /\ encoder = None
    /\ vret = NoStoreCall

\* a process that does not use the vector store
IdleStore ==
    /\ installed = {}
    /\ index = None
    /\ metadata = <<>>
    /\ dimension = None
    /\ collection = None
    /\ encoder = None
    /\ vret = NoStoreCall

\* ------------------------------------------------------- the session store
\* src/src/chat_manager.py: ChatSession and ChatManager.  A ChatSession
\* object is known by its session_id (uuid4 is taken to give a new id each
\* time); sessions holds the objects alive, current_session the id of the
\* one the manager points to, files the save_dir: what the file
\* <session_id>.json holds.
NoTopic == ""

\* datetime.isoformat() and datetime.fromisoformat(): the text of a time
IsoFormat(t) == "2025-01-01T00:00:0" \o ToString(t)
FromIsoFormat(text) == CHOOSE t \in 0..(MaxTime + 1) : IsoFormat(t) = text

\* the n-th value of uuid.uuid4()
Uuid(n) == "uuid-" \o ToString(n)

\* ChatSession(session_id, topic) built at time t; no session_id is ""
ChatSession(session_id, topic, fresh, t) ==
    [session_id |-> IF session_id # "" THEN session_id ELSE fresh,
     topic |-> topic, created_at |-> t, updated_at |-> t, messages |-> <<>>]

\* the message ChatSession.add_message appends; no retrieved_context is []
NewMessage(role, content, retrieved_context, t) ==
    [role |-> role, content |-> content, timestamp |-> IsoFormat(t),
     retrieved_context |-> IF retrieved_context.some THEN retrieved_context.val ELSE <<>>]

\* ChatSession.add_message(role, content, retrieved_context) at time t
SessionAddMessage(session, role, content, retrieved_context, t) ==
    [session EXCEPT !.messages = Append(@, NewMessage(role, content, retrieved_context, t)),
                    !.updated_at = t]

\* (variant: the record is written with the time the session was created)
to_dict_stale(session) ==
    [session_id |-> session.session_id, topic |-> session.topic,
     created_at |-> IsoFormat(session.created_at),
     updated_at |-> IsoFormat(session.created_at),
     messages |-> session.messages]
\* ChatSession.to_dict()
to_dict(session) ==
    [session_id |-> session.session_id, topic |-> session.topic,
     created_at |-> IsoFormat(session.created_at),
     updated_at |-> IsoFormat(session.updated_at),
     messages |-> session.messages]

\* (variant: the loaded session keeps the times of its construction)
from_dict_now(data, fresh, t) ==
    [ChatSession(data.session_id, data.topic, fresh, t)
        EXCEPT !.messages = data.messages]
\* ChatSession.from_dict(data), called at time t
from_dict(data, fresh, t) ==
    [ChatSession(data.session_id, data.topic, fresh, t)
        EXCEPT !.created_at = FromIsoFormat(data.created_at),
               !.updated_at = FromIsoFormat(data.updated_at),
               !.messages = data.messages]

\* what a file of save_dir holds: nothing (there is no file), the JSON text of
\* a record, or the beginning of one
Absent == [kind |-> "absent", data |-> to_dict(ChatSession("", NoTopic, "", 0))]
Partial == [kind |-> "partial", data |-> to_dict(ChatSession("", NoTopic, "", 0))]
Json(data) == [kind |-> "json", data |-> data]

\* the file of session_id; a name the directory does not hold is no file
FileOf(fs, session_id) == IF session_id \in DOMAIN fs THEN fs[session_id] ELSE Absent

\* (variant: a dump that raises leaves the file as it was)
PersistOrKeep(fs, session, fault) ==
    IF fault # "none" THEN [ok |-> FALSE, files |-> fs]
    ELSE [ok |-> TRUE, files |-> (session.session_id :> Json(to_dict(session))) @@ fs]
\* the try block of save_session: open(session_file, 'w') and json.dump.
\* fault is what the file system does: "none", "open" (open raises, the
\* file is untouched) or "write" (the file is opened and truncated, and the
\* dump raises part-way)
Persist(fs, session, fault) ==
    IF fault = "open" THEN [ok |-> FALSE, files |-> fs]
    ELSE IF fault = "write"
         THEN [ok |-> FALSE, files |-> (session.session_id :> Partial) @@ fs]
    ELSE [ok |-> TRUE, files |-> (session.session_id :> Json(to_dict(session))) @@ fs]

\* (variant: an id without a file resets the current session)
LoadOutcomeReset(fs, objs, current, session_id, fresh, t) ==
    IF FileOf(fs, session_id).kind = "json"
    THEN LET session == from_dict(FileOf(fs, session_id).data, fresh, t)
         IN  [out |-> Some(session),
              sessions |-> (session.session_id :> session),
              current_session |-> Some(session.session_id)]
    ELSE [out |-> None, sessions |-> <<>>, current_session |-> None]
\* ChatManager.load_session(session_id): what it returns and the manager's
\* sessions afterwards; a file that is not JSON makes json.load raise, which
\* is caught
LoadOutcome(fs, objs, current, session_id, fresh, t) ==
    IF FileOf(fs, session_id).kind = "json"
    THEN LET session == from_dict(FileOf(fs, session_id).data, fresh, t)
         IN  [out |-> Some(session),
              sessions |-> (session.session_id :> session),
              current_session |-> Some(session.session_id)]
    ELSE [out |-> None, sessions |-> objs, current_session |-> current]

NoChatCall == [op |-> "none", out |-> None, ok |-> FALSE, signalled |-> FALSE,
               fault |-> "none", saved |-> FALSE, session_id |-> ""]

\* ChatManager.__init__(save_dir, auto_save) on an empty save_dir
InitChat ==
    /\ sessions = <<>>
    /\ current_session = None
    /\ files = <<>>
    /\ auto_save \in BOOLEAN
    /\ uuids = 0
    /\ cret = NoChatCall

\* a process that does not use the session store
\* no thread is inside a call
IdleThreads == pc = <<>> /\ frame = <<>>

IdleChat ==
    /\ sessions = <<>>
    /\ current_session = None
    /\ files = <<>>
    /\ auto_save = TRUE
    /\ uuids = 0
    /\ cret = NoChatCall

\* ----------------------------------------------------------------- calls
\* The record of the last call: its arguments, the clock it read last (t), what
\* it returned (out), how often it invoked the vector store (searched), whether
\* it raised, what happened inside (note), and the call before it when that
\* was a set, retrieve or build about the same (query, top_k) (after).
NoCall == [op |-> "none", query |-> "", top_k |-> 0, arg |-> <<>>, t |-> 0,
           out |-> None, searched |-> 0, raised |-> FALSE,
           note |-> "", after |-> ""]

Call(op, query, top_k, arg, t, out, searched, raised, note) ==
    [op |-> op, query |-> query, top_k |-> top_k, arg |-> arg, t |-> t,
     out |-> out, searched |-> searched, raised |-> raised, note |-> note,
     after |-> IF /\ ret.query = query /\ ret.top_k = top_k /\ ~ret.raised
                  /\ ret.op \in {"set", "retrieve", "build"}
               THEN ret.op ELSE "other"]

\* trail no longer lists a run of sets of distinct keys from the empty cache
Broken == <<"?">>

Init ==
    /\ now = 0
    /\ ttl_seconds \in Ttls
    /\ max_size \in 1..MaxCacheSize
    /\ cache = <<>>
    /\ ret = NoCall
    /\ trail = <<>>
    /\ context_window = DefaultContextWindow
    /\ asm = NoAssembly
    /\ built = NoBuild
    /\ pending = NoArgs
    /\ IdleStore
    /\ IdleChat
    /\ IdleThreads

\* time passes
Tick ==
    /\ now < MaxTime
    /\ now' = now + 1
    /\ UNCHANGED <<ttl_seconds, max_size, cache, ret, trail>>
    /\ UNCHANGED <<promptVars, restVars>>

\* ContextCache.set(query, top_k, results)
Set(query, top_k, results) ==
    /\ cache' = CacheAfterSet(cache, max_size, query, top_k, results, now)
    /\ ret' = Call("set", query, top_k, results, now, None, 0, FALSE,
                   IF Len(cache) >= max_size THEN "evicted" ELSE "room")
    /\ trail' = IF /\ trail # Broken
                   /\ Len(trail) <= max_size
                   /\ \A i \in 1..Len(trail) : trail[i] # _generate_key(query, top_k)
                THEN Append(trail, _generate_key(query, top_k))
                ELSE Broken
    /\ UNCHANGED <<now, ttl_seconds, max_size>>
    /\ UNCHANGED <<promptVars, restVars>>

\* ContextCache.get(query, top_k)
Get(query, top_k) ==
    /\ cache' = CacheAfterGet(cache, ttl_seconds, query, top_k, now)
    /\ ret' = Call("get", query, top_k, <<>>, now,
                   CacheGetResult(cache, ttl_seconds, query, top_k, now), 0, FALSE,
                   IF KeyIndex(cache, _generate_key(query, top_k)) = 0 THEN "absent"
                   ELSE IF cache' # cache THEN "expired" ELSE "hit")
    /\ trail' = IF cache' = <<>> THEN <<>> ELSE Broken
    /\ UNCHANGED <<now, ttl_seconds, max_size>>
    /\ UNCHANGED <<promptVars, restVars>>

\* ContextCache.clear()
Clear ==
    /\ cache' = <<>>
    /\ ret' = Call("clear", "", 0, <<>>, now, None, 0, FALSE, "")
    /\ trail' = <<>>
    /\ UNCHANGED <<now, ttl_seconds, max_size>>
    /\ UNCHANGED <<promptVars, restVars>>

\* ------------------------------------------------------------- RAGEngine
\* if top_k is None: top_k = self.top_k
NoTopK == 0
EffectiveTopK(top_k) == IF top_k = NoTopK THEN DefaultTopK ELSE top_k

\* RAGEngine.retrieve_context(query, top_k) answered from the cache
RetrieveHit(query, top_k) ==
    LET k == EffectiveTopK(top_k)
        cached_results == CacheGetResult(cache, ttl_seconds, query, k, now)
    IN  /\ cached_results.some
        /\ cache' = CacheAfterGet(cache, ttl_seconds, query, k, now)
        /\ ret' = Call("retrieve", query, k, <<>>, now, cached_results, 0, FALSE, "hit")
        /\ trail' = Broken
        /\ UNCHANGED <<now, ttl_seconds, max_size>>
        /\ UNCHANGED <<promptVars, restVars>>

\* (variant: retrieve_context without its self.cache.set(query, top_k, results))
RetrieveMissNoSet(query, top_k, results) ==
    LET k == EffectiveTopK(top_k)
        cached_results == CacheGetResult(cache, ttl_seconds, query, k, now)
    IN  /\ ~cached_results.some
        /\ cache' = CacheAfterGet(cache, ttl_seconds, query, k, now)
        /\ ret' = Call("retrieve", query, k, <<>>, now, Some(results), 1, FALSE, "absent")
        /\ trail' = Broken
        /\ UNCHANGED <<now, ttl_seconds, max_size>>
        /\ UNCHANGED <<promptVars, restVars>>

\* RAGEngine.retrieve_context(query, top_k) on a cache miss: the vector store
\* is searched and the results it returns are cached
RetrieveMiss(query, top_k, results) ==
    LET k == EffectiveTopK(top_k)
        cached_results == CacheGetResult(cache, ttl_seconds, query, k, now)
        afterGet == CacheAfterGet(cache, ttl_seconds, query, k, now)
    IN  /\ ~cached_results.some
        /\ cache' = CacheAfterSet(afterGet, max_size, query, k, results, now)
        /\ ret' = Call("retrieve", query, k, <<>>, now, Some(results), 1, FALSE,
                       IF afterGet # cache THEN "expired" ELSE "absent")
        /\ trail' = Broken
        /\ UNCHANGED <<now, ttl_seconds, max_size>>
        /\ UNCHANGED <<promptVars, restVars>>

\* RAGEngine.retrieve_context(query, top_k) on a cache miss when
\* vector_db.search_similar raises: the exception leaves retrieve_context
RetrieveRaises(query, top_k) ==
    LET k == EffectiveTopK(top_k)
        cached_results == CacheGetResult(cache, ttl_seconds, query, k, now)
    IN  /\ ~cached_results.some
        /\ cache' = CacheAfterGet(cache, ttl_seconds, query, k, now)
        /\ ret' = Call("retrieve", query, k, <<>>, now, None, 1, TRUE, "raised")
        /\ trail' = IF cache' = <<>> THEN <<>> ELSE Broken
        /\ UNCHANGED <<now, ttl_seconds, max_size>>
        /\ UNCHANGED <<promptVars, restVars>>

\* RAGEngine.clear_cache()
clear_cache == Clear

\* the cache driven directly: set, get and clear by one caller
NextCache ==
    \/ Tick
    \/ \E q \in Queries, k \in TopKs, r \in ResultLists : Set(q, k, r)
    \/ \E q \in Queries, k \in TopKs : Get(q, k)
    \/ Clear

SpecCache == Init /\ [][NextCache]_vars

\* the engine: the cache is reached through retrieve_context and clear_cache
Next ==
    \/ Tick
    \/ \E q \in Queries, k \in {1, NoTopK} : RetrieveHit(q, k)
    \/ \E q \in Queries, k \in {1, NoTopK}, r \in ResultLists : RetrieveMiss(q, k, r)
    \/ \E q \in Queries, k \in {1, NoTopK} : RetrieveRaises(q, k)
    \/ clear_cache

Spec == Init /\ [][Next]_vars

\* -------------------------------------------------- the prompt assembler
\* a call of build_rag_prompt: only the record of the call changes
BuildPrompt(user_query, retrieved_context, conversation_history) ==
    /\ asm' = Assemble(user_query, retrieved_context, conversation_history, context_window)
    /\ ret' = Call("build", user_query, 0, <<>>, now,
                   Some(build_rag_prompt(user_query, retrieved_context, conversation_history)),
                   0, FALSE, "")
    /\ UNCHANGED <<now, ttl_seconds, max_size, cache, trail, context_window>>
    /\ UNCHANGED restVars

\* the caller makes the call whose arguments it holds
BuildPending ==
    /\ pending.waiting
    /\ BuildPrompt(pending.user_query, pending.retrieved_context,
                   pending.conversation_history)
    /\ pending' = [pending EXCEPT !.waiting = FALSE]
    /\ UNCHANGED built

\* a call of build_rag_prompt between calls of retrieve_context; the first
\* call made is remembered, and whether the cache was empty then
BuildRemembered(user_query, retrieved_context, conversation_history) ==
    /\ BuildPrompt(user_query, retrieved_context, conversation_history)
    /\ built' = IF built.made THEN built
                ELSE [made |-> TRUE, user_query |-> user_query,
                      retrieved_context |-> retrieved_context,
                      conversation_history |-> conversation_history,
                      context_window |-> context_window,
                      prompt |-> ret'.out.val,
                      empty |-> cache = <<>>]
    /\ UNCHANGED pending

\* the inputs of the assembler: lists of up to MaxDocs papers, histories of up
\* to MaxHistory messages, and queries, with lengths at and around the caps
PaperDoc(titleLen, abstractLen) ==
    [id |-> 0, distance |-> 0,
     metadata |-> [title |-> Rep("t", titleLen), authors |-> <<"Ann", "Bob">>,
                   abstract |-> Rep("x", abstractLen), source |-> "arxiv"]]
BareDoc == [id |-> 1, distance |-> 1]

\* the title length that makes the context block of one paper ContextCap long
TitleLenAtCap == ContextCap - Len(_format_context(<<PaperDoc(0, 0)>>))

DocKinds ==
    {PaperDoc(5, 10), PaperDoc(5, AbstractCap), PaperDoc(5, AbstractCap + 1),
     BareDoc, PaperDoc(TitleLenAtCap, 0), PaperDoc(TitleLenAtCap + 1, 0)}

DocLists == {[i \in 1..n |-> d] : n \in 0..MaxDocs, d \in DocKinds}

Digit(i) == SubSeq("123456789", ((i - 1) % 9) + 1, ((i - 1) % 9) + 1)

\* the i-th message of a session: user and assistant take turns
Message(i, len) ==
    [role |-> IF i % 2 = 1 THEN "user" ELSE "assistant", content |-> Rep(Digit(i), len)]

\* the content length that makes the history block of one message HistoryCap long
ContentLenAtCap == HistoryCap - Len(RenderHistory(<<Message(1, 0)>>))

ContentLens == {3, ContentLenAtCap, ContentLenAtCap + 1, ContentCap, ContentCap + 1}

Histories ==
    {[i \in 1..n |-> Message(i, len)] : n \in 0..MaxHistory, len \in ContentLens}
        \cup {<<[content |-> "hi"]>>,
              <<Message(1, 3), [role |-> "system", content |-> "be brief"], Message(3, 3)>>}

\* queries: a short one, the longest that keeps the estimate within the
\* budget, the next longer one, and one as long as the budget
QueriesFor(retrieved_context, conversation_history, window) ==
    LET room == HardBudget - EstimatedLength("", _format_context(retrieved_context),
                    _format_conversation_history(conversation_history, window))
    IN  {"What is RAG?", Rep("q", Max(room, 1)), Rep("q", Max(room, 1) + 1),
         Rep("q", HardBudget)}

InitPrompt ==
    /\ now = 0
    /\ ttl_seconds = DefaultCacheTtl
    /\ max_size = DefaultMaxCacheSize
    /\ cache = <<>>
    /\ ret = NoCall
    /\ trail = <<>>
    /\ context_window \in 0..MaxWindow
    /\ asm = NoAssembly
    /\ built = NoBuild
    /\ \E d \in DocLists, h \in Histories :
          \E q \in QueriesFor(d, h, context_window) :
              pending = [waiting |-> TRUE, user_query |-> q, retrieved_context |-> d,
                         conversation_history |-> h]
    /\ IdleStore
    /\ IdleChat
    /\ IdleThreads

NextPrompt == BuildPending

SpecPrompt == InitPrompt /\ [][NextPrompt]_vars

\* the engine as generate_response drives it, in its default configuration:
\* retrieve_context(user_query) with the default top_k, and build_rag_prompt on
\* a retrieved list and the history of a session of three messages
SessionHistory == <<Message(1, 3), Message(2, 3), Message(3, 3)>>

InitAssemble ==
    /\ now = 0
    /\ ttl_seconds = DefaultCacheTtl
    /\ max_size = DefaultMaxCacheSize
    /\ cache = <<>>
    /\ ret = NoCall
    /\ trail = <<>>
    /\ context_window = DefaultContextWindow
    /\ asm = NoAssembly
    /\ built = NoBuild
    /\ pending = NoArgs
    /\ IdleStore
    /\ IdleChat
    /\ IdleThreads

NextAssemble ==
    \/ Tick
    \/ \E q \in Queries : RetrieveHit(q, NoTopK)
    \/ \E q \in Queries, r \in ResultLists : RetrieveMiss(q, NoTopK, r)
    \/ clear_cache
    \/ \E q \in Queries, r \in ResultLists : BuildRemembered(q, r, SessionHistory)

SpecAssemble == InitAssemble /\ [][NextAssemble]_vars

\* ------------------------------------------------- VectorDBPopulator calls
StoreCall(op, raised, results, query, top_k) ==
    [op |-> op, raised |-> raised, results |-> results, query |-> query, top_k |-> top_k]

\* (variant: a config without a dimension is refused)
InitializeStrict(config) ==
    IF "faiss" \notin installed
    THEN [raised |-> "ImportError", dimension |-> dimension, index |-> index]
    ELSE IF "dimension" \notin DOMAIN config
         THEN [raised |-> "ValueError", dimension |-> dimension, index |-> index]
    ELSE [raised |-> Returned,
          dimension |-> Some(config["dimension"]),
          index |-> Some(IndexFlatL2(config["dimension"]))]
\* FAISSBackend.initialize(config): what it raises and the fields it leaves
Initialize(config) ==
    IF "faiss" \notin installed
    THEN [raised |-> "ImportError", dimension |-> dimension, index |-> index]
    ELSE [raised |-> Returned,
          dimension |-> Some(DictGet(config, "dimension", DefaultDimension)),
          index |-> Some(IndexFlatL2(DictGet(config, "dimension", DefaultDimension)))]

\* VectorDBPopulator.initialize_database(config); no config is the empty one
initialize_database(config) ==
    /\ dimension' = Initialize(config).dimension
    /\ index' = Initialize(config).index
    /\ vret' = StoreCall("initialize_database", Initialize(config).raised, <<>>, NoQuery, 0)
    /\ UNCHANGED <<collection, installed, metadata, encoder>>
    /\ UNCHANGED nonStoreVars

\* (variant: a missing encoder is an error, it is not loaded on demand)
EnsureEncoderStrict ==
    IF encoder.some THEN [raised |-> Returned, encoder |-> encoder]
    ELSE [raised |-> "RuntimeError", encoder |-> encoder]
\* if self.encoder is None: self.initialize_encoder()
EnsureEncoder ==
    IF encoder.some THEN [raised |-> Returned, encoder |-> encoder]
    ELSE IF "sentence_transformers" \notin installed
         THEN [raised |-> "ImportError", encoder |-> encoder]
    ELSE [raised |-> Returned, encoder |-> Some(DefaultEncoderModel)]

\* VectorDBPopulator.initialize_encoder()
initialize_encoder ==
    /\ encoder' = IF "sentence_transformers" \in installed
                  THEN Some(DefaultEncoderModel) ELSE encoder
    /\ vret' = StoreCall("initialize_encoder",
                         IF "sentence_transformers" \in installed
                         THEN Returned ELSE "ImportError", <<>>, NoQuery, 0)
    /\ UNCHANGED <<collection, installed, index, metadata, dimension>>
    /\ UNCHANGED nonStoreVars

\* (variant: the lengths of vectors and metadata are not compared)
populate_from_vectors_unchecked(vectors, new_metadata) ==
    LET added == BackendAdd(index, metadata, vectors, new_metadata)
        raised == added.raised
    IN  /\ index' = IF raised = Returned THEN added.index ELSE index
        /\ metadata' = IF raised = Returned THEN added.metadata ELSE metadata
        /\ vret' = StoreCall("populate_from_vectors", raised, <<>>, NoQuery, 0)
        /\ UNCHANGED <<collection, installed, dimension, encoder>>
        /\ UNCHANGED nonStoreVars
\* VectorDBPopulator.populate_from_vectors(vectors, metadata)
populate_from_vectors(vectors, new_metadata) ==
    LET added == BackendAdd(index, metadata, vectors, new_metadata)
        raised == IF Len(vectors) # Len(new_metadata) THEN "ValueError" ELSE added.raised
    IN  /\ index' = IF raised = Returned THEN added.index ELSE index
        /\ metadata' = IF raised = Returned THEN added.metadata ELSE metadata
        /\ vret' = StoreCall("populate_from_vectors", raised, <<>>, NoQuery, 0)
        /\ UNCHANGED <<collection, installed, dimension, encoder>>
        /\ UNCHANGED nonStoreVars

\* VectorDBPopulator.populate_from_texts(texts, metadata); metadata may be None
populate_from_texts(texts, given_metadata) ==
    LET ready == EnsureEncoder
        new_metadata == IF given_metadata.some THEN given_metadata.val
                        ELSE DefaultMetadata(texts)
        added == BackendAdd(index, metadata, EncodeAll(texts), new_metadata)
        raised == IF ready.raised # Returned THEN ready.raised
                  ELSE IF Len(new_metadata) # Len(texts) THEN "ValueError"
                  ELSE added.raised
    IN  /\ encoder' = ready.encoder
        /\ index' = IF raised = Returned THEN added.index ELSE index
        /\ metadata' = IF raised = Returned THEN added.metadata ELSE metadata
        /\ vret' = StoreCall("populate_from_texts", raised, <<>>, NoQuery, 0)
        /\ UNCHANGED <<collection, installed, dimension>>
        /\ UNCHANGED nonStoreVars


\* VectorDBPopulator.search_similar(query, top_k); order is the rank order
\* the index search settles on
search_similar(query, top_k, order) ==
    LET ready == IF query.str THEN EnsureEncoder
                 ELSE [raised |-> Returned, encoder |-> encoder]
        query_vector == IF query.str THEN Encode(query.text) ELSE query.vector
        found == BackendSearch(index, metadata, query_vector, top_k, order)
        raised == IF ready.raised # Returned THEN ready.raised ELSE found.raised
    IN  /\ encoder' = ready.encoder
        /\ vret' = StoreCall("search_similar", raised,
                             IF raised = Returned THEN found.results ELSE <<>>,
                             query, top_k)
        /\ UNCHANGED <<collection, installed, index, metadata, dimension>>
        /\ UNCHANGED nonStoreVars
    /\ UNCHANGED nonStoreVars

\* the inputs of the store: configs with and without a dimension, vectors of
\* two coordinates, texts (encoded to DefaultDimension coordinates), and
\* metadata lists of the length of the batch and one shorter
Configs == {<<>>, [dimension |-> 2], [collection_name |-> "papers"]}
Points == {Vector(2, <<1, 0>>), Vector(2, <<0, 1>>)}
Texts == {"a", "bb"}
Label(v) == [id |-> v.head]
VectorBatches ==
    {<<v>> : v \in Points} \cup {<<v, w>> : v \in Points, w \in Points}
TextBatches == {<<t>> : t \in Texts} \cup {<<"a", "bb">>}
LabelsOf(vectors) == [i \in 1..Len(vectors) |-> Label(vectors[i])]
TextLabelsOf(texts) == [i \in 1..Len(texts) |-> [text |-> texts[i]]]
StoreQueries == {Vec(v) : v \in Points \cup {Vector(2, <<1, 1>>)}} \cup {Str("a")}

\* the store is filled with no more than MaxVectors records
Room(batch) == Len(metadata) + Len(batch) <= MaxVectors

NextStore ==
    \/ \E config \in Configs : initialize_database(config)
    \/ initialize_encoder
    \/ \E vectors \in VectorBatches :
          \E new_metadata \in {LabelsOf(vectors), Tail(LabelsOf(vectors))} :
              Room(vectors) /\ populate_from_vectors(vectors, new_metadata)
    \/ \E texts \in TextBatches :
          \E given \in {None, Some(TextLabelsOf(texts)), Some(Tail(TextLabelsOf(texts)))} :
              Room(texts) /\ populate_from_texts(texts, given)
    \/ \E query \in StoreQueries, top_k \in 1..(MaxVectors + 1) :
          \E order \in (IF index.some
                        THEN RankOrders(index.val,
                                        IF query.str THEN Encode(query.text) ELSE query.vector)
                        ELSE {<<>>}) :
              search_similar(query, top_k, order)

\* a process that uses the vector store alone
InitStoreOnly ==
    /\ now = 0
    /\ ttl_seconds = DefaultCacheTtl
    /\ max_size = DefaultMaxCacheSize
    /\ cache = <<>>
    /\ ret = NoCall
    /\ trail = <<>>
    /\ context_window = DefaultContextWindow
    /\ asm = NoAssembly
    /\ built = NoBuild
    /\ pending = NoArgs
    /\ InitStore
    /\ IdleChat
    /\ IdleThreads

SpecStore == InitStoreOnly /\ [][NextStore]_vars

\* ------------------------------------------- the persistent collection
\* VectorDBPopulator('chromadb').  A chromadb collection holds one record
\* per id.  collection.add of ids the collection holds is, by the version of
\* the library, refused as a whole (duplicates = "raise") or carried out for
\* the ids that are new only (duplicates = "ignore"); a held record is not
\* replaced.
\* (variant: the ids go on from the number of records held)
BatchIdsFrom(coll, n) == [i \in 1..n |-> "vec_" \o ToString(Len(coll) + i - 1)]
\* ids = [f"vec_{i}" for i in range(len(vectors))]
BatchIds(coll, n) == [i \in 1..n |-> "vec_" \o ToString(i - 1)]

IdsOf(coll) == {coll[i].id : i \in 1..Len(coll)}

\* the records of a batch whose id the collection does not hold, in order
RECURSIVE NewRecords(_, _)
NewRecords(coll, records) ==
    IF Len(records) = 0 THEN <<>>
    ELSE IF Head(records).id \in IdsOf(coll) THEN NewRecords(coll, Tail(records))
    ELSE <<Head(records)>> \o NewRecords(coll, Tail(records))

\* ChromaDBBackend.add_vectors(vectors, metadata): what it raises and the
\* collection it leaves
ChromaAddVectors(coll, vectors, new_metadata, duplicates) ==
    IF ~coll.some THEN [raised |-> "RuntimeError", collection |-> coll, ids |-> <<>>]
    ELSE LET ids == BatchIds(coll.val, Len(vectors))
             records == [i \in 1..Len(vectors) |->
                            [id |-> ids[i], embedding |-> vectors[i],
                             metadata |-> new_metadata[i]]]
         IN  IF duplicates = "raise" /\ \E i \in 1..Len(ids) : ids[i] \in IdsOf(coll.val)
             THEN [raised |-> "DuplicateIDError", collection |-> coll, ids |-> ids]
             ELSE [raised |-> Returned,
                   collection |-> Some(coll.val \o NewRecords(coll.val, records)),
                   ids |-> ids]

\* ChromaDBBackend.initialize(config): the collection of that name is
\* fetched, or created empty
ChromaInitialize ==
    /\ collection' = IF collection.some THEN collection ELSE Some(<<>>)
    /\ vret' = StoreCall("initialize_database", Returned, <<>>, NoQuery, 0)
    /\ UNCHANGED <<installed, index, metadata, dimension, encoder>>
    /\ UNCHANGED nonStoreVars

\* VectorDBPopulator.populate_from_vectors(vectors, metadata) on the
\* collection; the ids given to collection.add are kept with the call
ChromaPopulate(vectors, new_metadata, duplicates) ==
    LET added == ChromaAddVectors(collection, vectors, new_metadata, duplicates)
        raised == IF Len(vectors) # Len(new_metadata) THEN "ValueError" ELSE added.raised
    IN  /\ collection' = IF raised = Returned THEN added.collection ELSE collection
        /\ vret' = StoreCall("populate_from_vectors", raised,
                             IF Len(vectors) # Len(new_metadata) THEN <<>> ELSE added.ids,
                             NoQuery, 0)
        /\ UNCHANGED <<installed, index, metadata, dimension, encoder>>
        /\ UNCHANGED nonStoreVars

\* batches of one to MaxVectors + 1 vectors
RECURSIVE BatchesOf(_)
BatchesOf(n) ==
    IF n = 0 THEN {<<>>}
    ELSE {Append(b, v) : b \in BatchesOf(n - 1), v \in Points \cup {Vector(2, <<1, 1>>)}}
ChromaBatches == UNION {BatchesOf(n) : n \in 1..(MaxVectors + 1)}

NextChroma ==
    \/ ChromaInitialize
    \/ \E vectors \in ChromaBatches, duplicates \in {"raise", "ignore"} :
          \E new_metadata \in {LabelsOf(vectors), Tail(LabelsOf(vectors))} :
              ChromaPopulate(vectors, new_metadata, duplicates)

InitChroma ==
    /\ now = 0
    /\ ttl_seconds = DefaultCacheTtl
    /\ max_size = DefaultMaxCacheSize
    /\ cache = <<>>
    /\ ret = NoCall
    /\ trail = <<>>
    /\ context_window = DefaultContextWindow
    /\ asm = NoAssembly
    /\ built = NoBuild
    /\ pending = NoArgs
    /\ IdleStore
    /\ IdleChat
    /\ IdleThreads

SpecChroma == InitChroma /\ [][NextChroma]_vars

\* ----------------------------------- the engine on its vector store
\* what RAGEngine.retrieve_context(query, top_k) does; cached is what
\* self.cache.get returned and found what self.vector_db.search_similar
\* ends with when it is called: the error it raises, or its results
Retrieval(query, top_k, found, cached) ==
    LET k == EffectiveTopK(top_k)
        afterGet == CacheAfterGet(cache, ttl_seconds, query, k, now)
    IN  IF cached.some
        THEN [cache |-> afterGet, out |-> cached, searched |-> 0, raised |-> FALSE,
              note |-> "hit"]
        ELSE [cache |-> IF found.raised = Returned
                        THEN CacheAfterSet(afterGet, max_size, query, k, found.results, now)
                        ELSE afterGet,
              out |-> IF found.raised = Returned THEN Some(found.results) ELSE None,
              searched |-> 1,
              raised |-> found.raised # Returned,
              note |-> IF found.raised # Returned THEN "raised"
                       ELSE IF afterGet # cache THEN "expired" ELSE "absent"]

\* VectorDBPopulator.search_similar(query, top_k) for a text query on the
\* flat-index store: what it ends with and the encoder it leaves
SearchSimilar(query, top_k, order) ==
    LET ready == EnsureEncoder
        found == BackendSearch(index, metadata, Encode(query), top_k, order)
        raised == IF ready.raised # Returned THEN ready.raised ELSE found.raised
    IN  [raised |-> raised,
         results |-> IF raised = Returned THEN found.results ELSE <<>>,
         encoder |-> ready.encoder]

\* (variant: retrieve_context searches the store whatever the cache holds)
retrieve_context_uncached(query, top_k, order) ==
    LET found == SearchSimilar(query, EffectiveTopK(top_k), order)
        done == Retrieval(query, top_k, found, None)
    IN  /\ cache' = done.cache
        /\ encoder' = IF done.searched = 1 THEN found.encoder ELSE encoder
        /\ vret' = IF done.searched = 1
                   THEN StoreCall("search_similar", found.raised, found.results,
                                  Str(query), EffectiveTopK(top_k))
                   ELSE vret
        /\ ret' = Call("retrieve", query, EffectiveTopK(top_k), <<>>, now, done.out,
                       done.searched, done.raised, done.note)
        /\ trail' = Broken
        /\ UNCHANGED <<now, ttl_seconds, max_size, promptVars>>
        /\ UNCHANGED <<collection, installed, index, metadata, dimension, chatVars, threadVars>>
\* RAGEngine.retrieve_context(query, top_k) on the flat-index store
retrieve_context(query, top_k, order) ==
    LET found == SearchSimilar(query, EffectiveTopK(top_k), order)
        done == Retrieval(query, top_k, found,
                          CacheGetResult(cache, ttl_seconds, query,
                                         EffectiveTopK(top_k), now))
    IN  /\ cache' = done.cache
        /\ encoder' = IF done.searched = 1 THEN found.encoder ELSE encoder
        /\ vret' = IF done.searched = 1
                   THEN StoreCall("search_similar", found.raised, found.results,
                                  Str(query), EffectiveTopK(top_k))
                   ELSE vret
        /\ ret' = Call("retrieve", query, EffectiveTopK(top_k), <<>>, now, done.out,
                       done.searched, done.raised, done.note)
        /\ trail' = Broken
        /\ UNCHANGED <<now, ttl_seconds, max_size, promptVars>>
        /\ UNCHANGED <<collection, installed, index, metadata, dimension, chatVars, threadVars>>

\* the rank orders the index may settle on for the text query
OrdersFor(query) ==
    IF index.some THEN RankOrders(index.val, Encode(query)) ELSE {<<>>}

\* an engine over a store that texts are added to while it answers
NextEngineStore ==
    \/ Tick
    \/ initialize_database(<<>>)
    \/ \E t \in Texts : Room(<<t>>) /\ populate_from_texts(<<t>>, None)
    \/ \E q \in Queries : \E order \in OrdersFor(q) : retrieve_context(q, 1, order)
    \/ clear_cache

InitEngineStore ==
    /\ now = 0
    /\ ttl_seconds = 1
    /\ max_size \in {1, MaxCacheSize}
    /\ cache = <<>>
    /\ ret = NoCall
    /\ trail = <<>>
    /\ context_window = DefaultContextWindow
    /\ asm = NoAssembly
    /\ built = NoBuild
    /\ pending = NoArgs
    /\ installed = {"faiss", "sentence_transformers"}
    /\ index = None
    /\ metadata = <<>>
    /\ dimension = None
    /\ collection = None
    /\ encoder = None
    /\ vret = NoStoreCall
    /\ IdleChat
    /\ IdleThreads

SpecEngineStore == InitEngineStore /\ [][NextEngineStore]_vars

\* ------------------------------------------------------- ChatManager calls
\* the record of a call: what it returned (out; ok for a bool), whether the
\* caller was told of a failure (a False or an exception), the fault of the
\* file system during the call and whether the call reached the persist step
ChatCall(op, out, ok, signalled, fault, saved, session_id) ==
    [op |-> op, out |-> out, ok |-> ok, signalled |-> signalled, fault |-> fault,
     saved |-> saved, session_id |-> session_id]

Current == sessions[current_session.val]

\* ChatManager.start_new_session(topic)
start_new_session(topic) ==
    /\ uuids < MaxSessions
    /\ uuids' = uuids + 1
    /\ sessions' = (Uuid(uuids') :> ChatSession("", topic, Uuid(uuids'), now))
    /\ current_session' = Some(Uuid(uuids'))
    /\ cret' = ChatCall("start_new_session", None, TRUE, FALSE,
                        "none", FALSE, Uuid(uuids'))
    /\ UNCHANGED <<files, auto_save>>
    /\ UNCHANGED nonChatVars

\* ChatManager.load_session(session_id)
load_session(session_id) ==
    LET loaded == LoadOutcome(files, sessions, current_session, session_id,
                              Uuid(uuids + 1), now)
    IN  /\ sessions' = loaded.sessions
        /\ current_session' = loaded.current_session
        /\ cret' = ChatCall("load_session", loaded.out, loaded.out.some, ~loaded.out.some,
                            "none", FALSE, session_id)
        /\ UNCHANGED <<files, auto_save, uuids>>
        /\ UNCHANGED nonChatVars

\* ChatManager.save_session(): the current session is saved; the record of
\* the call keeps (out.some) whether the session's file held a record before
save_session(fault) ==
    LET saved == IF current_session.some THEN Persist(files, Current, fault)
                 ELSE [ok |-> FALSE, files |-> files]
        before == IF current_session.some THEN FileOf(files, current_session.val)
                  ELSE Absent
    IN  /\ files' = saved.files
        /\ cret' = ChatCall("save_session",
                            IF before.kind = "json" THEN Some(<<>>) ELSE None,
                            saved.ok, ~saved.ok,
                            IF current_session.some THEN fault ELSE "none",
                            current_session.some, current_session.val)
        /\ UNCHANGED <<sessions, current_session, auto_save, uuids>>
        /\ UNCHANGED nonChatVars

\* the files of save_dir without the file of session_id
Unlink(fs, session_id) == [id \in DOMAIN fs \ {session_id} |-> fs[id]]

\* (variant: deleting the record of the current session also drops it)
delete_session_and_forget(session_id, fault) ==
    LET ok == session_id \in DOMAIN files /\ fault = "none"
        forgets == ok /\ current_session = Some(session_id)
    IN  /\ files' = IF ok THEN Unlink(files, session_id) ELSE files
        /\ current_session' = IF forgets THEN None ELSE current_session
        /\ sessions' = IF forgets THEN <<>> ELSE sessions
        /\ cret' = ChatCall("delete_session", None, ok, ~ok, fault, FALSE, session_id)
        /\ UNCHANGED <<auto_save, uuids>>
        /\ UNCHANGED nonChatVars
\* ChatManager.delete_session(session_id); fault is what the file system
\* does: "none", or "unlink" (unlink raises, which is caught)
delete_session(session_id, fault) ==
    LET ok == session_id \in DOMAIN files /\ fault = "none"
    IN  /\ files' = IF ok THEN Unlink(files, session_id) ELSE files
        /\ cret' = ChatCall("delete_session", None, ok, ~ok, fault, FALSE, session_id)
        /\ UNCHANGED <<sessions, current_session, auto_save, uuids>>
        /\ UNCHANGED nonChatVars

\* ChatManager.list_sessions(): the session ids of the entries, one for
\* every file json.load reads; a file it cannot read is skipped
ListedIds(fs) == {fs[id].data.session_id : id \in {f \in DOMAIN fs : fs[f].kind = "json"}}

\* ChatManager.add_message(role, content, retrieved_context): a session is
\* started when there is none, the message is appended, and the session is
\* saved when auto_save is set; what save_session returns is dropped
add_message(role, content, retrieved_context, fault) ==
    LET started == ~current_session.some
        session_id == IF started THEN Uuid(uuids + 1) ELSE current_session.val
        session == IF started THEN ChatSession("", NoTopic, session_id, now)
                   ELSE Current
        appended == SessionAddMessage(session, role, content, retrieved_context, now)
    IN  /\ started => uuids < MaxSessions
        /\ Len(session.messages) < MaxMessages
        /\ uuids' = IF started THEN uuids + 1 ELSE uuids
        /\ sessions' = (session_id :> appended)
        /\ current_session' = Some(session_id)
        /\ files' = IF auto_save THEN Persist(files, appended, fault).files ELSE files
        /\ cret' = ChatCall("add_message", None, TRUE, FALSE,
                            IF auto_save THEN fault ELSE "none", auto_save, session_id)
        /\ UNCHANGED auto_save
        /\ UNCHANGED nonChatVars

\* the inputs of the session store
Topics == {"ml"}
\* the turn that follows n messages: a user message with the context
\* retrieved for it, then an assistant message without
Turn(n) ==
    IF n % 2 = 0
    THEN [role |-> "user", content |-> "q" \o ToString(n), retrieved_context |-> Some(<<Doc0>>)]
    ELSE [role |-> "assistant", content |-> "r" \o ToString(n), retrieved_context |-> None]
Turns == {Turn(IF current_session.some THEN Len(Current.messages) ELSE 0)}
Faults == {"none", "open", "write"}
SessionIds == {Uuid(n) : n \in 1..MaxSessions} \cup {"unknown"}

NextChat ==
    \/ Tick
    \/ \E topic \in Topics : start_new_session(topic)
    \/ \E session_id \in SessionIds : load_session(session_id)
    \/ \E fault \in Faults : save_session(fault)
    \/ \E turn \in Turns, fault \in Faults :
          add_message(turn.role, turn.content, turn.retrieved_context, fault)

InitChatOnly ==
    /\ now = 0
    /\ ttl_seconds = DefaultCacheTtl
    /\ max_size = DefaultMaxCacheSize
    /\ cache = <<>>
    /\ ret = NoCall
    /\ trail = <<>>
    /\ context_window = DefaultContextWindow
    /\ asm = NoAssembly
    /\ built = NoBuild
    /\ pending = NoArgs
    /\ IdleStore
    /\ InitChat
    /\ IdleThreads

SpecChat == InitChatOnly /\ [][NextChat]_vars

\* a manager whose records are deleted between the turns
NextChatDelete ==
    \/ Tick
    \/ \E topic \in Topics : start_new_session(topic)
    \/ \E session_id \in SessionIds : load_session(session_id)
    \/ \E turn \in Turns, fault \in {"none", "write"} :
          add_message(turn.role, turn.content, turn.retrieved_context, fault)
    \/ \E session_id \in SessionIds, fault \in {"none", "unlink"} :
          delete_session(session_id, fault)

SpecChatDelete == InitChatOnly /\ [][NextChatDelete]_vars

\* ------------------------------------------------ scripts/rag_chat.py
\* main() and chat_loop(): the program loads the session named by
\* --session-id when one is given, enters chat_loop, which starts a session,
\* and then answers one input after the other.  The engine's vector store
\* is the collection of the topic; a search of it ends with one of the
\* result lists, or raises.  frame[1] holds the arguments of the program and
\* the last call on the manager tells where the program is.
NoSessionId == ""
Args(session_id) == <<[session_id |-> session_id, topic |-> "ml"]>>

\* a session an earlier run of the program saved: one turn, at time 0
PriorId == Uuid(0)
PriorSession ==
    SessionAddMessage(
        SessionAddMessage(ChatSession(PriorId, "ml", "", 0), "user", "q", Some(<<Doc0>>), 0),
        "assistant", "r", None, 0)

\* session.get_conversation_history()
get_conversation_history(session) ==
    [i \in 1..Len(session.messages) |->
        [role |-> session.messages[i].role, content |-> session.messages[i].content]]

\* main: if args.session_id: session = chat_manager.load_session(args.session_id)
MainLoad ==
    /\ cret.op = "none"
    /\ frame[1].session_id # NoSessionId
    /\ load_session(frame[1].session_id)

\* chat_loop: session = chat_manager.start_new_session(topic)
LoopStart ==
    /\ \/ cret.op = "load_session"
       \/ cret.op = "none" /\ frame[1].session_id = NoSessionId
    /\ start_new_session(frame[1].topic)

\* the program is inside the while loop of chat_loop
InLoop == cret.op \in {"start_new_session", "add_message", "save_session"}

\* the input is the command save
LoopSave(fault) == InLoop /\ save_session(fault)

\* what search_similar and llm_client.generate_response end with
SearchOutcomes ==
    {[raised |-> Returned, results |-> <<Doc0>>],
     [raised |-> "RuntimeError", results |-> <<>>]}
Replies == {Some("r"), None}

\* (variant: the user message is recorded before the response is generated)
LoopTurnEager(user_input, found, reply, fault) ==
    LET done == Retrieval(user_input, NoTopK, found,
                          CacheGetResult(cache, ttl_seconds, user_input, DefaultTopK, now))
        failed == done.raised \/ ~reply.some
        user == SessionAddMessage(Current, "user", user_input, done.out, now)
        both == SessionAddMessage(user, "assistant", reply.val, None, now)
        session == IF failed THEN user ELSE both
        written == IF auto_save THEN Persist(files, session, fault).files ELSE files
    IN  /\ InLoop
        /\ Len(Current.messages) + 2 <= MaxMessages
        /\ cache' = done.cache
        /\ ret' = Call("generate", user_input, DefaultTopK, <<>>, now,
                       IF failed THEN None ELSE done.out, done.searched, failed,
                       IF done.raised THEN "search" ELSE IF failed THEN "generation"
                       ELSE done.note)
        /\ trail' = Broken
        /\ sessions' = (current_session.val :> session)
        /\ files' = written
        /\ cret' = ChatCall("add_message", None, TRUE, FALSE,
                            IF auto_save THEN fault ELSE "none", auto_save,
                            current_session.val)
        /\ UNCHANGED <<now, ttl_seconds, max_size, promptVars, storeVars, threadVars>>
        /\ UNCHANGED <<current_session, auto_save, uuids>>
\* one turn of chat_loop for an input that is no command:
\* rag_engine.generate_response(user_input, conversation_history), which is
\* retrieve_context, build_rag_prompt and llm_client.generate_response, then
\* the two chat_manager.add_message calls; an exception is caught by the
\* loop, which goes on with the next input.  fault is what the file system
\* does to the saves of the turn.
LoopTurn(user_input, found, reply, fault) ==
    LET done == Retrieval(user_input, NoTopK, found,
                          CacheGetResult(cache, ttl_seconds, user_input, DefaultTopK, now))
        failed == done.raised \/ ~reply.some
        user == SessionAddMessage(Current, "user", user_input, done.out, now)
        both == SessionAddMessage(user, "assistant", reply.val, None, now)
        written == IF auto_save
                   THEN Persist(Persist(files, user, fault).files, both, fault).files
                   ELSE files
    IN  /\ InLoop
        /\ failed \/ Len(Current.messages) + 2 <= MaxMessages
        /\ cache' = done.cache
        /\ ret' = Call("generate", user_input, DefaultTopK, <<>>, now,
                       IF failed THEN None ELSE done.out, done.searched, failed,
                       IF done.raised THEN "search" ELSE IF failed THEN "generation"
                       ELSE done.note)
        /\ trail' = Broken
        /\ sessions' = IF failed THEN sessions ELSE (current_session.val :> both)
        /\ files' = IF failed THEN files ELSE written
        /\ cret' = IF failed THEN cret
                   ELSE ChatCall("add_message", None, TRUE, FALSE,
                                 IF auto_save THEN fault ELSE "none", auto_save,
                                 current_session.val)
        /\ UNCHANGED <<now, ttl_seconds, max_size, promptVars, storeVars, threadVars>>
        /\ UNCHANGED <<current_session, auto_save, uuids>>

NextRagChat ==
    \/ Tick
    \/ MainLoad
    \/ LoopStart
    \/ \E fault \in {"none", "write"} : LoopSave(fault)
    \/ \E user_input \in Queries, found \in SearchOutcomes, reply \in Replies :
          \E fault \in {"none", "write"} : LoopTurn(user_input, found, reply, fault)

\* the program is started, with or without --session-id, on a save_dir that
\* holds the session of an earlier run
InitRagChat ==
    /\ now = 0
    /\ ttl_seconds = 1
    /\ max_size = 1
    /\ cache = <<>>
    /\ ret = NoCall
    /\ trail = <<>>
    /\ context_window = DefaultContextWindow
    /\ asm = NoAssembly
    /\ built = NoBuild
    /\ pending = NoArgs
    /\ IdleStore
    /\ sessions = <<>>
    /\ current_session = None
    /\ files = (PriorId :> Json(to_dict(PriorSession)))
    /\ auto_save \in BOOLEAN
    /\ uuids = 0
    /\ cret = NoChatCall
    /\ pc = <<>>
    /\ frame \in {Args(id) : id \in {NoSessionId, PriorId}}

SpecRagChat == InitRagChat /\ [][NextRagChat]_vars

\* ------------------------------------------------------ parallel callers
\* Threads call into one ContextCache, or one ChatManager, at the same time.
\* The code takes no lock, so a call is the sequence of its statements and
\* the statements of the calls interleave; pc is the statement a thread is
\* at and frame its local variables.  A statement is one step (min(...) over
\* the dict is taken as one step too).
Threads == 1..MaxThreads

NoFrame == [op |-> "", key |-> "", results |-> <<>>, oldest_key |-> "", timestamp |-> 0,
            found |-> <<>>, status |-> "", out |-> None]

\* the call of thread t ends: it returns out, or the exception went up
Finish(t, status, out) ==
    /\ pc' = [pc EXCEPT ![t] = "idle"]
    /\ frame' = [frame EXCEPT ![t].status = status, ![t].out = out]

Goto(t, label) == pc' = [pc EXCEPT ![t] = label]

\* ContextCache.set(query, top_k, results) is called: key = self._generate_key
BeginSet(t, query, top_k, results) ==
    /\ pc[t] = "idle"
    /\ Goto(t, "set_check")
    /\ frame' = [frame EXCEPT ![t] = [NoFrame EXCEPT !.op = "set",
                                        !.key = _generate_key(query, top_k),
                                        !.results = results]]
    /\ UNCHANGED <<now, ttl_seconds, max_size, cache, ret, trail>>
    /\ UNCHANGED <<promptVars, storeVars, chatVars>>

\* if len(self.cache) >= self.max_size:
SetCheck(t) ==
    /\ pc[t] = "set_check"
    /\ Goto(t, IF Len(cache) >= max_size THEN "set_min" ELSE "set_store")
    /\ UNCHANGED <<frame, now, ttl_seconds, max_size, cache, ret, trail>>
    /\ UNCHANGED <<promptVars, storeVars, chatVars>>

\* oldest_key = min(self.cache.keys(), key=...): ValueError on an empty dict
SetMin(t) ==
    /\ pc[t] = "set_min"
    /\ IF Len(cache) = 0
       THEN Finish(t, "ValueError", None)
       ELSE /\ Goto(t, "set_del")
            /\ frame' = [frame EXCEPT ![t].oldest_key = cache[OldestIndex(cache)].key]
    /\ UNCHANGED <<now, ttl_seconds, max_size, cache, ret, trail>>
    /\ UNCHANGED <<promptVars, storeVars, chatVars>>

\* del self.cache[oldest_key]: KeyError when the key is gone
SetDel(t) ==
    /\ pc[t] = "set_del"
    /\ IF KeyIndex(cache, frame[t].oldest_key) = 0
       THEN Finish(t, "KeyError", None) /\ UNCHANGED cache
       ELSE /\ cache' = RemoveAt(cache, KeyIndex(cache, frame[t].oldest_key))
            /\ Goto(t, "set_store")
            /\ UNCHANGED frame
    /\ UNCHANGED <<now, ttl_seconds, max_size, ret, trail>>
    /\ UNCHANGED <<promptVars, storeVars, chatVars>>

\* self.cache[key] = (results, datetime.now())
SetStore(t) ==
    /\ pc[t] = "set_store"
    /\ cache' = Store(cache, frame[t].key, frame[t].results, now)
    /\ Finish(t, "returned", None)
    /\ UNCHANGED <<now, ttl_seconds, max_size, ret, trail>>
    /\ UNCHANGED <<promptVars, storeVars, chatVars>>

\* ContextCache.get(query, top_k) is called
BeginGet(t, query, top_k) ==
    /\ pc[t] = "idle"
    /\ Goto(t, "get_check")
    /\ frame' = [frame EXCEPT ![t] = [NoFrame EXCEPT !.op = "get",
                                        !.key = _generate_key(query, top_k)]]
    /\ UNCHANGED <<now, ttl_seconds, max_size, cache, ret, trail>>
    /\ UNCHANGED <<promptVars, storeVars, chatVars>>

\* if key not in self.cache: return None
GetCheck(t) ==
    /\ pc[t] = "get_check"
    /\ IF KeyIndex(cache, frame[t].key) = 0
       THEN Finish(t, "returned", None)
       ELSE Goto(t, "get_read") /\ UNCHANGED frame
    /\ UNCHANGED <<now, ttl_seconds, max_size, cache, ret, trail>>
    /\ UNCHANGED <<promptVars, storeVars, chatVars>>

\* results, timestamp = self.cache[key]: KeyError when the key is gone
GetRead(t) ==
    /\ pc[t] = "get_read"
    /\ IF KeyIndex(cache, frame[t].key) = 0
       THEN Finish(t, "KeyError", None)
       ELSE /\ Goto(t, "get_expired")
            /\ frame' = [frame EXCEPT
                           ![t].found = cache[KeyIndex(cache, frame[t].key)].results,
                           ![t].timestamp = cache[KeyIndex(cache, frame[t].key)].ts]
    /\ UNCHANGED <<now, ttl_seconds, max_size, cache, ret, trail>>
    /\ UNCHANGED <<promptVars, storeVars, chatVars>>

\* if datetime.now() - timestamp > timedelta(seconds=self.ttl_seconds):
\* else return results
GetExpired(t) ==
    /\ pc[t] = "get_expired"
    /\ IF Expired(frame[t].timestamp, now, ttl_seconds)
       THEN Goto(t, "get_del") /\ UNCHANGED frame
       ELSE Finish(t, "returned", Some(frame[t].found))
    /\ UNCHANGED <<now, ttl_seconds, max_size, cache, ret, trail>>
    /\ UNCHANGED <<promptVars, storeVars, chatVars>>

\* del self.cache[key]; return None: KeyError when the key is gone
GetDel(t) ==
    /\ pc[t] = "get_del"
    /\ IF KeyIndex(cache, frame[t].key) = 0
       THEN Finish(t, "KeyError", None) /\ UNCHANGED cache
       ELSE /\ cache' = RemoveAt(cache, KeyIndex(cache, frame[t].key))
            /\ Finish(t, "returned", None)
    /\ UNCHANGED <<now, ttl_seconds, max_size, ret, trail>>
    /\ UNCHANGED <<promptVars, storeVars, chatVars>>

\* ContextCache(ttl_seconds, max_size) shared by the threads
InitCacheThreads ==
    /\ now = 0
    /\ ttl_seconds \in Ttls
    /\ max_size \in 1..MaxCacheSize
    /\ cache = <<>>
    /\ ret = NoCall
    /\ trail = <<>>
    /\ context_window = DefaultContextWindow
    /\ asm = NoAssembly
    /\ built = NoBuild
    /\ pending = NoArgs
    /\ IdleStore
    /\ IdleChat
    /\ pc = [t \in Threads |-> "idle"]
    /\ frame = [t \in Threads |-> NoFrame]

\* every thread sets a key of its own, again and again
ThreadQuery(t) == "q" \o ToString(t)

NextSetThreads ==
    \/ Tick
    \/ \E t \in Threads : BeginSet(t, ThreadQuery(t), 1, <<>>)
    \/ \E t \in Threads : SetCheck(t)
    \/ \E t \in Threads : SetMin(t)
    \/ \E t \in Threads : SetDel(t)
    \/ \E t \in Threads : SetStore(t)

SpecSetThreads == InitCacheThreads /\ [][NextSetThreads]_vars

\* the threads get and set the keys of Queries
NextCacheThreads ==
    \/ Tick
    \/ \E t \in Threads, q \in Queries : BeginSet(t, q, 1, <<>>)
    \/ \E t \in Threads, q \in Queries : BeginGet(t, q, 1)
    \/ \E t \in Threads : SetCheck(t)
    \/ \E t \in Threads : SetMin(t)
    \/ \E t \in Threads : SetDel(t)
    \/ \E t \in Threads : SetStore(t)
    \/ \E t \in Threads : GetCheck(t)
    \/ \E t \in Threads : GetRead(t)
    \/ \E t \in Threads : GetExpired(t)
    \/ \E t \in Threads : GetDel(t)

SpecCacheThreads == InitCacheThreads /\ [][NextCacheThreads]_vars

\* --------------------------------------- parallel callers of add_message
\* Each thread calls ChatManager.add_message once, with a message of its own.
NoAddFrame == [op |-> "", content |-> "", self |-> "", session |-> "", status |-> ""]

ThreadMessage(t) == "m" \o ToString(t)

BeginAdd(t) ==
    /\ pc[t] = "idle"
    /\ frame[t].status = ""
    /\ Goto(t, "add_check")
    /\ frame' = [frame EXCEPT ![t].op = "add_message", ![t].content = ThreadMessage(t)]
    /\ UNCHANGED <<engineVars, storeVars, chatVars>>

\* if self.current_session is None:
AddCheck(t) ==
    /\ pc[t] = "add_check"
    /\ Goto(t, IF current_session.some THEN "add_self" ELSE "add_start")
    /\ UNCHANGED <<frame, engineVars, storeVars, chatVars>>

\* self.start_new_session()
AddStart(t) ==
    /\ pc[t] = "add_start"
    /\ uuids' = uuids + 1
    /\ sessions' = (Uuid(uuids') :> ChatSession("", NoTopic, Uuid(uuids'), now)) @@ sessions
    /\ current_session' = Some(Uuid(uuids'))
    /\ Goto(t, "add_self")
    /\ UNCHANGED <<frame, files, auto_save, cret, engineVars, storeVars>>

\* self.current_session.add_message(...): the session the call is made on
AddSelf(t) ==
    /\ pc[t] = "add_self"
    /\ frame' = [frame EXCEPT ![t].self = current_session.val]
    /\ Goto(t, "add_append")
    /\ UNCHANGED <<engineVars, storeVars, chatVars>>

\* ChatSession.add_message: self.messages.append(message) and
\* self.updated_at = datetime.now(); then if self.auto_save:
AddAppend(t) ==
    /\ pc[t] = "add_append"
    /\ sessions' = [sessions EXCEPT ![frame[t].self] =
                       SessionAddMessage(@, "user", frame[t].content, None, now)]
    /\ IF auto_save
       THEN Goto(t, "save_session") /\ UNCHANGED frame
       ELSE Finish(t, "returned", None)
    /\ UNCHANGED <<current_session, files, auto_save, uuids, cret, engineVars, storeVars>>

\* save_session(): session = self.current_session
AddSaveSession(t) ==
    /\ pc[t] = "save_session"
    /\ frame' = [frame EXCEPT ![t].session = current_session.val]
    /\ Goto(t, "save_open")
    /\ UNCHANGED <<engineVars, storeVars, chatVars>>

\* open(session_file, 'w'): the file is made, or emptied
AddSaveOpen(t) ==
    /\ pc[t] = "save_open"
    /\ files' = (frame[t].session :> Partial) @@ files
    /\ Goto(t, "save_dump")
    /\ UNCHANGED <<frame, sessions, current_session, auto_save, uuids, cret>>
    /\ UNCHANGED <<engineVars, storeVars>>

\* json.dump(session.to_dict(), f): the session as it is now is written
AddSaveDump(t) ==
    /\ pc[t] = "save_dump"
    /\ files' = Persist(files, sessions[frame[t].session], "none").files
    /\ Finish(t, "returned", None)
    /\ UNCHANGED <<sessions, current_session, auto_save, uuids, cret>>
    /\ UNCHANGED <<engineVars, storeVars>>

\* a ChatManager that has no session yet, or one just started
InitChatThreads ==
    /\ now = 0
    /\ ttl_seconds = DefaultCacheTtl
    /\ max_size = DefaultMaxCacheSize
    /\ cache = <<>>
    /\ ret = NoCall
    /\ trail = <<>>
    /\ context_window = DefaultContextWindow
    /\ asm = NoAssembly
    /\ built = NoBuild
    /\ pending = NoArgs
    /\ IdleStore
    /\ files = <<>>
    /\ auto_save \in BOOLEAN
    /\ cret = NoChatCall
    /\ \/ uuids = 0 /\ sessions = <<>> /\ current_session = None
       \/ /\ uuids = 1
          /\ sessions = (Uuid(1) :> ChatSession("", "ml", Uuid(1), now))
          /\ current_session = Some(Uuid(1))
    /\ pc = [t \in Threads |-> "idle"]
    /\ frame = [t \in Threads |-> NoAddFrame]

NextChatThreads ==
    \/ \E t \in Threads : BeginAdd(t)
    \/ \E t \in Threads : AddCheck(t)
    \/ \E t \in Threads : AddStart(t)
    \/ \E t \in Threads : AddSelf(t)
    \/ \E t \in Threads : AddAppend(t)
    \/ \E t \in Threads : AddSaveSession(t)
    \/ \E t \in Threads : AddSaveOpen(t)
    \/ \E t \in Threads : AddSaveDump(t)

SpecChatThreads == InitChatThreads /\ [][NextChatThreads]_vars

\* ------------------------------------------------------------ properties
\* the step is a call on the cache or the engine, not the passing of time
IsCall == ret' # ret \/ now' = now

\* the step is the call op on (query, top_k) directly after the call before on
\* the same (query, top_k)
Follows(op, before) ==
    /\ IsCall
    /\ ret'.op = op
    /\ ret.op = before
    /\ ret'.after = before

\* C1 as stated: a get(q,k) directly after set(q,k,R), with no more than the
\* smallest measurable time between them, is a hit that returns R, whatever
\* the ttl >= 0.
C1_GetAfterSetAnyTtl ==
    [][Follows("get", "set") /\ now - ret.t <= 1
         => ret'.out = Some(ret.arg)]_vars

\* C1 amended: a get(q,k) directly after set(q,k,R) is a hit that returns R
\* (the empty list included) when the clock has advanced by no more than ttl
\* between the two calls.
C1_GetAfterSetWithinTtl ==
    [][Follows("get", "set") /\ now - ret.t <= ttl_seconds
         => ret'.out = Some(ret.arg)]_vars

C1_Witness ==
    /\ ret.op = "get"
    /\ ret.after = "set"
    /\ ret.out = Some(<<>>)
    /\ Len(cache) = max_size

\* C2: after max_size + 1 sets of distinct keys from the empty cache, exactly
\* max_size entries are held, the first key set is absent (a get misses) and
\* every other key is still held.
C2_OldestEvicted ==
    (trail # Broken /\ Len(trail) = max_size + 1) =>
        /\ Len(cache) = max_size
        /\ KeyIndex(cache, trail[1]) = 0
        /\ \A q \in Queries, k \in TopKs :
              _generate_key(q, k) = trail[1] =>
                  CacheGetResult(cache, ttl_seconds, q, k, now) = None
        /\ \A i \in 2..Len(trail) : KeyIndex(cache, trail[i]) # 0

C2_Witness ==
    /\ trail # Broken
    /\ Len(trail) = max_size + 1
    /\ max_size = MaxCacheSize

\* C3: a get of an entry set at t0 and still held is a hit, returning the
\* entry's results, at every time before t0 + ttl, and a miss at every time
\* after t0 + ttl.
C3_TtlExpiry ==
    [][\A i \in 1..Len(cache) :
          (/\ IsCall
           /\ ret'.op = "get"
           /\ cache[i].key = _generate_key(ret'.query, ret'.top_k))
          => /\ now < cache[i].ts + ttl_seconds => ret'.out = Some(cache[i].results)
             /\ now > cache[i].ts + ttl_seconds => ret'.out = None]_vars

C3_Witness ==
    /\ ret.op = "get"
    /\ ret.note = "expired"
    /\ ret.out = None
    /\ ttl_seconds >= 1

\* C4: the cache never holds more than max_size entries.
C4_SizeBounded == get_stats.size <= get_stats.max_size

C4_Witness ==
    /\ ret.op = "set"
    /\ ret.note = "evicted"
    /\ get_stats.size = max_size
    /\ max_size = MaxCacheSize

\* the entry of (query, top_k) is held by c and not older than ttl at time t
Live(c, query, top_k, t) ==
    \E i \in 1..Len(c) :
        /\ c[i].key = _generate_key(query, top_k)
        /\ t - c[i].ts <= ttl_seconds

\* retrieve_context answers a live entry from the cache without a search, and
\* otherwise searches once and caches what the search returned
C5_CacheFirst ==
    (IsCall /\ ret'.op = "retrieve") =>
        LET key == _generate_key(ret'.query, ret'.top_k)
        IN  /\ Live(cache, ret'.query, ret'.top_k, now) =>
                /\ ret'.searched = 0
                /\ ret'.out = Some(cache[KeyIndex(cache, key)].results)
                /\ cache' = cache
            /\ ~Live(cache, ret'.query, ret'.top_k, now) =>
                /\ ret'.searched = 1
                /\ ~ret'.raised =>
                      /\ ret'.out.some
                      /\ KeyIndex(cache', key) # 0
                      /\ cache'[KeyIndex(cache', key)].results = ret'.out.val

\* the step is a retrieve_context(q,k) directly after a retrieve_context(q,k)
\* that searched and returned
RetrieveAgain == Follows("retrieve", "retrieve") /\ ret.searched = 1 /\ ~ret.raised

\* C5 as stated: retrieve_context consults the cache first, and a
\* retrieve_context(q,k) directly after one that searched, with no more than
\* the smallest measurable time between them, does not search again.
C5_RetrieveCachesAnyTtl ==
    [][/\ C5_CacheFirst
       /\ RetrieveAgain /\ now - ret.t <= 1
            => ret'.searched = 0 /\ ret'.out = ret.out]_vars

\* C5 amended: retrieve_context consults the cache first, and a
\* retrieve_context(q,k) directly after one that searched does not search
\* again (and returns the same list, the empty list included) when the clock
\* has advanced by no more than ttl since the results were cached.
C5_RetrieveCachesWithinTtl ==
    [][/\ C5_CacheFirst
       /\ RetrieveAgain /\ now - ret.t <= ttl_seconds
            => ret'.searched = 0 /\ ret'.out = ret.out]_vars

C5_Witness ==
    /\ ret.op = "retrieve"
    /\ ret.after = "retrieve"
    /\ ret.searched = 0
    /\ ret.out = Some(<<>>)

\* --------------------------------------------- properties of the assembler
\* sub occurs in s (the places are tried from the last one down)
Contains(s, sub) ==
    LET last == Len(s) - Len(sub) + 1
    IN  \E d \in 1..last : SubSeq(s, last - d + 1, last - d + Len(sub)) = sub

\* the last n elements of s
LastN(s, n) == SubSeq(s, Len(s) - n + 1, Len(s))

\* C6: the prompt returned contains the whole query, also when the context
\* block and the history block are cut.
C6_QueryVerbatim ==
    ret.op = "build" => Contains(ret.out.val, pending.user_query)

C6_Witness ==
    /\ ret.op = "build"
    /\ Len(pending.user_query) >= HardBudget
    /\ asm.context_section # asm.context_block
    /\ asm.history_section # asm.history_block
    /\ Contains(ret.out.val, pending.user_query)

C8_LastWindowMessages ==
    ret.op = "build" =>
        LET history == pending.conversation_history
        IN  asm.history_block =
                RenderHistory(LastN(history, Min(context_window, Len(history))))

\* (what the code does: the same for every context window of 1 or more)
HistoryWindowFromOne ==
    (ret.op = "build" /\ context_window >= 1) =>
        LET history == pending.conversation_history
        IN  asm.history_block =
                RenderHistory(LastN(history, Min(context_window, Len(history))))

\* C9: after the truncation step, query + context block + history block +
\* overhead is within the hard budget.
C9_PromptWithinBudget ==
    ret.op = "build" =>
        Len(pending.user_query) + Len(asm.context_section) + Len(asm.history_section)
            + SystemPromptOverhead <= HardBudget

\* C10: with estimate = len(query) + len(context block) + len(history block)
\* + 500: up to 3000 both blocks are emitted as they are; above 3000 a context
\* block longer than 1500 is cut to its first 1500 characters plus a marker, a
\* history block longer than 1000 to its first 1000 characters plus a marker,
\* and a block within its cap is emitted as it is.
C10_TruncationRule ==
    ret.op = "build" =>
        LET query == pending.user_query
            contextBlock == _format_context(pending.retrieved_context)
            historyBlock == _format_conversation_history(pending.conversation_history,
                                                          context_window)
            estimate == Len(query) + Len(contextBlock) + Len(historyBlock) + 500
            contextOut == IF estimate > 3000 /\ Len(contextBlock) > 1500
                          THEN SubSeq(contextBlock, 1, 1500) \o ContextTruncatedMarker
                          ELSE contextBlock
            historyOut == IF estimate > 3000 /\ Len(historyBlock) > 1000
                          THEN SubSeq(historyBlock, 1, 1000) \o HistoryTruncatedMarker
                          ELSE historyBlock
            emitted == PromptHead \o contextOut \o "\n\n" \o historyOut
                           \o "\n\nCurrent question: "
        IN  /\ asm.estimated_length = estimate
            /\ asm.context_section = contextOut
            /\ asm.history_section = historyOut
            /\ SubSeq(ret.out.val, 1, Len(emitted)) = emitted

C10_Witness ==
    /\ ret.op = "build"
    /\ asm.estimated_length = HardBudget + 1
    /\ Len(asm.context_block) > ContextCap
    /\ asm.context_section = SubSeq(asm.context_block, 1, ContextCap) \o ContextTruncatedMarker
    /\ Len(asm.history_block) > 0
    /\ Len(asm.history_block) <= HistoryCap
    /\ asm.history_section = asm.history_block

\* -------------------------------------------- properties of the vector store
\* the step is a call of op on the store
IsStoreCall(op) == vret'.op = op

QueryVector(query) == IF query.str THEN Encode(query.text) ELSE query.vector

Ascending(results) ==
    \A i, j \in 1..Len(results) : i < j => results[i].distance <= results[j].distance

\* C11: on an initialized flat index whose N vectors were stored with their
\* metadata, a vector search with top_k > N is not an error and returns
\* exactly N results, one per stored vector with that vector's own metadata,
\* by ascending distance.
C11_SearchClamped ==
    (/\ vret.op = "search_similar"
     /\ ~vret.query.str
     /\ index.some
     /\ vret.query.vector.len = index.val.d
     /\ Len(metadata) = ntotal(index.val)
     /\ vret.top_k > ntotal(index.val))
    => /\ vret.raised = Returned
       /\ Len(vret.results) = ntotal(index.val)
       /\ \A i \in 1..ntotal(index.val) :
             \E j \in 1..Len(vret.results) :
                 /\ vret.results[j].id = i - 1
                 /\ vret.results[j].metadata = metadata[i]
                 /\ vret.results[j].distance = Distance(index.val.xb[i], vret.query.vector)
       /\ Ascending(vret.results)

\* a search that asks for no more than the index holds returns top_k
\* results, each a stored vector with its own metadata, by ascending distance
SearchWithinStore ==
    (/\ vret.op = "search_similar"
     /\ ~vret.query.str
     /\ index.some
     /\ vret.query.vector.len = index.val.d
     /\ Len(metadata) = ntotal(index.val)
     /\ vret.top_k <= ntotal(index.val))
    => /\ vret.raised = Returned
       /\ Len(vret.results) = vret.top_k
       /\ \A j \in 1..Len(vret.results) :
             /\ vret.results[j].id \in 0..(ntotal(index.val) - 1)
             /\ vret.results[j].metadata = metadata[vret.results[j].id + 1]
       /\ Ascending(vret.results)

\* C19 as stated: initialize_database on the flat index with a config that
\* has no dimension fails, and the index is left as it was (None when the
\* backend was never initialized).
C19_MissingDimensionFails ==
    [][\A config \in Configs :
          ("dimension" \notin DOMAIN config /\ initialize_database(config))
          => /\ vret'.raised # Returned
             /\ index' = index]_vars

\* C19 amended: initialize_database on the flat index with a config that has
\* no dimension does not fail for that: it makes an empty index of the
\* default dimension 384.  It fails only when faiss cannot be imported, and
\* then index and dimension are left as they were.
C19_MissingDimensionDefaults ==
    [][\A config \in Configs :
          ("dimension" \notin DOMAIN config /\ initialize_database(config))
          => IF "faiss" \in installed
             THEN /\ vret'.raised = Returned
                  /\ dimension' = Some(DefaultDimension)
                  /\ index' = Some(IndexFlatL2(DefaultDimension))
             ELSE /\ vret'.raised = "ImportError"
                  /\ index' = index
                  /\ dimension' = dimension]_vars

C19_Witness ==
    /\ vret.op = "initialize_database"
    /\ vret.raised = Returned
    /\ dimension = Some(DefaultDimension)
    /\ index = Some(IndexFlatL2(DefaultDimension))

\* the step is a text-based call: populate_from_texts, or search_similar
\* with a str
IsTextCall ==
    \/ IsStoreCall("populate_from_texts")
    \/ IsStoreCall("search_similar") /\ vret'.query.str

\* the step is a vector-based call
IsVectorCall ==
    \/ IsStoreCall("populate_from_vectors")
    \/ IsStoreCall("search_similar") /\ ~vret'.query.str

\* C20 as stated: a text-based call made when no encoder was initialized
\* raises and stores and finds nothing; a vector-based call leaves the encoder
\* alone and never fails for the lack of one.
C20_TextCallsNeedEncoder ==
    [][/\ (IsTextCall /\ ~encoder.some)
          => /\ vret'.raised # Returned
             /\ vret'.results = <<>>
             /\ index' = index /\ metadata' = metadata
       /\ IsVectorCall
          => /\ encoder' = encoder
             /\ vret'.raised # "ImportError"]_vars

\* C20 amended: a text-based call made when no encoder was initialized first
\* initializes the default encoder and goes on with it; it fails for the lack
\* of an encoder only when that initialization raises (sentence-transformers
\* cannot be imported), and then it stores and finds nothing and the encoder
\* stays None.  A vector-based call leaves the encoder alone and never fails
\* for the lack of one.
C20_TextCallsLoadEncoder ==
    [][/\ (IsTextCall /\ ~encoder.some)
          => IF "sentence_transformers" \in installed
             THEN /\ encoder' = Some(DefaultEncoderModel)
                  /\ vret'.raised # "ImportError"
             ELSE /\ vret'.raised = "ImportError"
                  /\ vret'.results = <<>>
                  /\ index' = index /\ metadata' = metadata
                  /\ encoder' = encoder
       /\ IsVectorCall
          => /\ encoder' = encoder
             /\ vret'.raised # "ImportError"]_vars

\* a text-based call failed for the lack of an encoder on a store that
\* vector-based calls had filled, no encoder being importable
C20_Witness ==
    /\ vret.op = "populate_from_texts"
    /\ vret.raised = "ImportError"
    /\ ~encoder.some
    /\ index.some
    /\ ntotal(index.val) > 0

\* -------------------------------------------- properties of the session store
\* the step is a call on the session store, not the passing of time
IsChatCall(op) == now' = now /\ cret'.op = op

\* C12: with auto_save, when the persist step succeeds, the record persisted
\* for the current session after add_message has returned holds the
\* session's messages, in their order, and its updated_at.
C12_AutoSaveInSync ==
    (cret.op = "add_message" /\ auto_save /\ cret.fault = "none")
    => /\ current_session.some
       /\ FileOf(files, current_session.val).kind = "json"
       /\ FileOf(files, current_session.val).data.messages = Current.messages
       /\ FromIsoFormat(FileOf(files, current_session.val).data.updated_at)
             = Current.updated_at

C12_Witness ==
    /\ cret.op = "add_message"
    /\ auto_save
    /\ cret.fault = "none"
    /\ Len(Current.messages) = MaxMessages
    /\ Current.updated_at > Current.created_at
    /\ Current.topic # NoTopic

\* the persist step of the call just made failed
PersistFailed(call) == call.saved /\ call.fault # "none"

\* C13: when the persist step fails, in save_session or in the auto-save of
\* add_message, the caller is told of the failure and the session in memory,
\* the message just appended included, is intact.
C13_SaveFailureReported ==
    [][/\ (IsChatCall("save_session") /\ PersistFailed(cret'))
          => /\ cret'.signalled
             /\ sessions' = sessions /\ current_session' = current_session
       /\ (IsChatCall("add_message") /\ PersistFailed(cret'))
          => /\ cret'.signalled
             /\ Len(Current'.messages) > 0
             /\ current_session.some =>
                   /\ current_session' = current_session
                   /\ SubSeq(Current'.messages, 1, Len(Current'.messages) - 1)
                         = Current.messages]_vars

\* the part of C13 that holds: a failed persist step leaves the session in
\* memory as the call made it, and save_session returns False
SaveFailureKeepsSession ==
    [][/\ (IsChatCall("save_session") /\ PersistFailed(cret'))
          => /\ ~cret'.ok
             /\ sessions' = sessions /\ current_session' = current_session
       /\ (IsChatCall("add_message") /\ PersistFailed(cret'))
          => /\ Len(Current'.messages) > 0
             /\ current_session.some =>
                   /\ current_session' = current_session
                   /\ SubSeq(Current'.messages, 1, Len(Current'.messages) - 1)
                         = Current.messages]_vars

\* C14: load_session of an id without a persisted record returns None and
\* leaves the current session and the persisted records as they were; a load
\* that returns a session makes it the current session.
C14_LoadMissing ==
    [][IsChatCall("load_session") =>
          /\ FileOf(files, cret'.session_id).kind = "absent" =>
                /\ ~cret'.out.some
                /\ current_session' = current_session
                /\ sessions' = sessions
                /\ files' = files
          /\ cret'.out.some =>
                /\ current_session'.some
                /\ Current' = cret'.out.val
                /\ files' = files]_vars

C14_Witness ==
    /\ cret.op = "load_session"
    /\ cret.session_id = "unknown"
    /\ ~cret.out.some
    /\ current_session.some
    /\ Len(Current.messages) > 0
    /\ FileOf(files, current_session.val).kind = "json"

\* C15: a load_session(s.session_id) that follows a successful save_session
\* of s returns a session equal to s in session_id, topic, created_at,
\* updated_at and messages; and after a successful save, saving the session
\* again would leave the records as they are.
C15_SaveLoadRoundTrip ==
    [][/\ (/\ IsChatCall("load_session")
           /\ cret.op = "save_session" /\ cret.ok
           /\ cret'.session_id = cret.session_id)
          => /\ cret'.out.some
             /\ cret'.out.val = Current
       /\ (IsChatCall("save_session") /\ cret'.ok)
          => /\ Persist(files', Current', "none").files = files'
             /\ FileOf(files', cret'.session_id) = Json(to_dict(Current'))]_vars

C15_Witness ==
    /\ cret.op = "load_session"
    /\ cret.out.some
    /\ Len(cret.out.val.messages) = MaxMessages
    /\ cret.out.val.created_at < cret.out.val.updated_at
    /\ cret.out.val.updated_at < now
    /\ ~auto_save

\* ------------------------------------------ properties of parallel callers
\* C16: while threads set keys of their own at the same time, the cache never
\* holds more than max_size entries.
C16_ParallelSetsBounded == Len(cache) <= max_size

\* C17: every get and set made while other threads get and set completes
\* normally: no call ends in an exception because an entry it had seen was
\* removed by another thread.
C17_ParallelCallsComplete ==
    \A t \in Threads : frame[t].status \notin {"KeyError", "ValueError"}

\* every thread's call has returned
AllReturned == \A t \in Threads : pc[t] = "idle" /\ frame[t].status = "returned"

HasMessage(messages, content) == \E i \in 1..Len(messages) : messages[i].content = content

\* the current session, and with auto_save its record, hold every thread's
\* message
BothMessagesKept ==
    /\ current_session.some
    /\ \A t \in Threads : HasMessage(Current.messages, ThreadMessage(t))
    /\ auto_save =>
          /\ FileOf(files, current_session.val).kind = "json"
          /\ \A t \in Threads :
                HasMessage(FileOf(files, current_session.val).data.messages,
                           ThreadMessage(t))

\* C18: once the add_message calls made at the same time have returned, one
\* session is current, it holds every call's message, and with auto_save so
\* does its persisted record; also when no session existed before the calls.
C18_ParallelAppendsKept == AllReturned => BothMessagesKept

\* the part of C18 that holds: when a session existed before the calls,
\* every message is kept
ParallelAppendsToSessionKept == (AllReturned /\ uuids = 1) => BothMessagesKept


\* ------------------------------------------------ C21: populate is atomic
\* the metadata record was given for this vector: the inputs label a vector
\* with its coordinates and a text with itself
BelongsTo(record, vector) ==
    IF "id" \in DOMAIN record THEN record.id = vector.head
    ELSE <<Len(record.text)>> = vector.head

\* as many metadata records as indexed vectors, the i-th for the i-th
Aligned(ix, md) ==
    /\ Len(md) = (IF ix.some THEN ntotal(ix.val) ELSE 0)
    /\ \A i \in 1..Len(md) : BelongsTo(md[i], ix.val.xb[i])

IsPopulateCall ==
    /\ vret' # vret
    /\ vret'.op \in {"populate_from_vectors", "populate_from_texts"}

\* C21: a populate call that raises stores nothing, and a populate call
\* (accepted or rejected) on a store whose metadata records are aligned
\* with its indexed vectors leaves them aligned: as many records as
\* vectors, the i-th record that of the i-th vector.
C21_PopulateAtomic ==
    [][IsPopulateCall =>
          /\ vret'.raised # Returned => index' = index /\ metadata' = metadata
          /\ Aligned(index, metadata) => Aligned(index', metadata')]_vars

\* a batch with one metadata record too few was refused by a store that
\* holds vectors
C21_Witness ==
    /\ vret.op \in {"populate_from_vectors", "populate_from_texts"}
    /\ vret.raised = "ValueError"
    /\ index.some /\ ntotal(index.val) >= 1
    /\ Aligned(index, metadata)


\* ---------------------------------------------------- C22: set overwrites
\* the step is a set of a key the cache holds
IsOverwrite ==
    /\ IsCall
    /\ ret'.op = "set"
    /\ KeyIndex(cache, _generate_key(ret'.query, ret'.top_k)) # 0

\* C22: after set(q,k,R2) on a cache that holds an entry for (q,k), one
\* entry is held for that key, its results are R2 and its timestamp is the
\* time of this set; a get(q,k) returns R2 at every time up to ttl after the
\* overwrite and misses later, whatever the age of the entry overwritten.
C22_SetOverwrites ==
    [][IsOverwrite =>
          LET key == _generate_key(ret'.query, ret'.top_k)
              i == KeyIndex(cache', key)
          IN  /\ Cardinality({j \in 1..Len(cache') : cache'[j].key = key}) = 1
              /\ cache'[i].results = ret'.arg
              /\ cache'[i].ts = now
              /\ \A t \in now..MaxTime :
                    CacheGetResult(cache', ttl_seconds, ret'.query, ret'.top_k, t)
                        = IF t - now <= ttl_seconds THEN Some(ret'.arg) ELSE None]_vars

\* (q,k) was set twice in a row, the second time after time 0 and with
\* results
C22_Witness ==
    /\ ret.op = "set"
    /\ ret.after = "set"
    /\ ret.t >= 1
    /\ ret.arg # <<>>
    /\ \E j \in 1..Len(cache) :
          cache[j].key = _generate_key(ret.query, ret.top_k) /\ cache[j].ts = ret.t


\* ------------------------------------- C23: eviction by insertion, not read
\* the entry at position i is the one min(...) picks: none is older, and
\* those before it in the dict are newer
IsOldest(c, i) ==
    /\ \A j \in 1..Len(c) : c[i].ts <= c[j].ts
    /\ \A j \in 1..(i - 1) : c[j].ts > c[i].ts

\* C23: a get that hits changes no entry, and a set of a new key into a
\* full cache removes the entry with the smallest timestamp and keeps the
\* others, also when that entry is the one the call before has just read.
C23_EvictionIgnoresReads ==
    [][/\ (IsCall /\ ret'.op = "get" /\ ret'.out.some) => cache' = cache
       /\ (/\ IsCall /\ ret'.op = "set"
           /\ Len(cache) >= max_size
           /\ KeyIndex(cache, _generate_key(ret'.query, ret'.top_k)) = 0)
          => \A i \in 1..Len(cache) :
                IF IsOldest(cache, i)
                THEN KeyIndex(cache', cache[i].key) = 0
                ELSE /\ KeyIndex(cache', cache[i].key) # 0
                     /\ cache'[KeyIndex(cache', cache[i].key)] = cache[i]]_vars

\* the oldest entry of a full cache of two has just been read: a hit
C23_Witness ==
    /\ ret.op = "get"
    /\ ret.note = "hit"
    /\ ret.out.some
    /\ max_size = 2
    /\ Len(cache) = 2
    /\ cache[1].key = _generate_key(ret.query, ret.top_k)
    /\ IsOldest(cache, 1)
    /\ ret.t > cache[2].ts


\* ------------------------------------ C27: an overwrite in a full cache evicts
\* C27: a set of a key the cache holds, when the cache holds max_size
\* entries, removes the oldest entry as well: when that is the entry of
\* another key the cache is left with max_size - 1 entries and without that
\* key; when it is the entry of the key set, the cache keeps its size.
C27_OverwriteEvicts ==
    [][(IsOverwrite /\ Len(cache) = max_size) =>
          \A i \in 1..Len(cache) :
              IsOldest(cache, i) =>
                  IF cache[i].key # _generate_key(ret'.query, ret'.top_k)
                  THEN /\ Len(cache') = max_size - 1
                       /\ KeyIndex(cache', cache[i].key) = 0
                  ELSE Len(cache') = max_size]_vars

\* a set that evicted has left a cache of two with one entry
C27_Witness ==
    /\ ret.op = "set"
    /\ ret.note = "evicted"
    /\ max_size = 2
    /\ Len(cache) = 1
    /\ cache[1].key = _generate_key(ret.query, ret.top_k)


\* --------------------------- C25: the cache outlives writes to the store
\* what a search of the store would return now for the call recorded
SearchesNow(query, top_k) ==
    {BackendSearch(index, metadata, Encode(query), top_k, order).results :
        order \in OrdersFor(query)}

\* the step is a retrieve_context: a call on the engine that leaves the
\* store's vectors alone and makes no call on the store but a search
IsRetrieve ==
    /\ IsCall
    /\ ret'.op = "retrieve"
    /\ index' = index /\ metadata' = metadata
    /\ vret' = vret \/ vret'.op = "search_similar"

\* C25: adding texts to the store changes no cache entry, and
\* retrieve_context(q,k) on a cache that holds an entry for (q,k) no older
\* than ttl returns that entry's results without a search, whatever the
\* store holds by now.
C25_CacheOutlivesWrites ==
    [][/\ (vret' # vret /\ vret'.op = "populate_from_texts") => cache' = cache
       /\ IsRetrieve =>
             \A i \in 1..Len(cache) :
                 (/\ cache[i].key = _generate_key(ret'.query, ret'.top_k)
                  /\ now - cache[i].ts <= ttl_seconds)
                 => /\ ret'.out = Some(cache[i].results)
                    /\ ret'.searched = 0
                    /\ cache' = cache]_vars

\* retrieve_context answered from the cache with results that no search of
\* the store as it is now would return
C25_Witness ==
    /\ ret.op = "retrieve"
    /\ ret.note = "hit"
    /\ vret.op = "populate_from_texts"
    /\ vret.raised = Returned
    /\ ret.out.val \notin SearchesNow(ret.query, ret.top_k)


\* ----------------------------- C24: rag_chat started with --session-id
\* the program was started with the id of a saved session, which main loaded
LoadedAtStart ==
    /\ frame[1].session_id # NoSessionId
    /\ FileOf(files, frame[1].session_id).kind = "json"

\* C24: when the session named by --session-id was loaded, it is the
\* manager's current session during the chat loop, its earlier messages
\* begin the conversation history given to the engine, and the turns of the
\* loop are saved under its id.
C24_LoadedSessionContinued ==
    (InLoop /\ LoadedAtStart) =>
        /\ current_session = Some(frame[1].session_id)
        /\ Len(Current.messages) >= Len(PriorSession.messages)
        /\ SubSeq(get_conversation_history(Current), 1, Len(PriorSession.messages))
              = get_conversation_history(PriorSession)
        /\ (cret.op = "add_message" /\ cret.saved) => cret.session_id = frame[1].session_id

\* what the program does instead: the loop runs on the session chat_loop
\* started, and the record of the loaded session stays as it was
LoopRunsOnNewSession ==
    InLoop =>
        /\ current_session = Some(Uuid(1))
        /\ Current.session_id # PriorId
        /\ FileOf(files, PriorId) = Json(to_dict(PriorSession))

\* ------------------------------------- C30: a failed turn leaves no trace
\* the step is a turn of the chat loop
IsTurn == ret' # ret /\ ret'.op = "generate"

\* C30: when the search or the generation of a turn raises, the search was
\* invoked at most once, no message is appended to the session and no
\* record is written; when it is the search that raised, the cache holds no
\* entry for the query afterwards, so a retrieve_context of it at any later
\* time searches again.
C30_FailedTurnLeavesNoTrace ==
    [][(IsTurn /\ ret'.raised) =>
          /\ ret'.searched <= 1
          /\ sessions' = sessions
          /\ current_session' = current_session
          /\ files' = files
          /\ ret'.note = "search" =>
                /\ ret'.searched = 1
                /\ KeyIndex(cache', _generate_key(ret'.query, ret'.top_k)) = 0
                /\ Len(cache') <= Len(cache)
                /\ \A t \in now..MaxTime :
                      CacheGetResult(cache', ttl_seconds, ret'.query, ret'.top_k, t) = None]_vars

\* the search of a turn raised after an earlier turn was answered and
\* recorded
C30_Witness ==
    /\ ret.op = "generate"
    /\ ret.raised
    /\ ret.note = "search"
    /\ current_session.some
    /\ Len(Current.messages) = 2
    /\ Len(cache) >= 1


\* ------------------------------------ C26: ids are unique within a batch only
IsChromaAdd ==
    /\ vret' # vret
    /\ vret'.op = "populate_from_vectors"
    /\ vret'.raised # "ValueError"
    /\ collection.some

\* C26: every add_vectors call gives its records the ids vec_0 .. vec_{n-1};
\* on a collection that holds records the ids of the call are, up to the
\* number held, ids the collection holds already, and after the call the
\* collection holds no more ids than the larger of the number it held and
\* the size of the batch, each once: by induction never more than the
\* largest batch.
C26_IdsRestartPerBatch ==
    [][IsChromaAdd =>
          LET ids == vret'.results
              held == collection.val
              left == collection'.val
          IN  /\ \A i \in 1..Len(ids) : ids[i] = "vec_" \o ToString(i - 1)
              /\ \A i \in 1..Min(Len(ids), Len(held)) : ids[i] \in IdsOf(held)
              /\ Len(left) <= Max(Len(held), Len(ids))
              /\ Cardinality(IdsOf(left)) = Len(left)
              /\ IdsOf(left) \subseteq IdsOf(held) \cup {ids[i] : i \in 1..Len(ids)}]_vars

\* a batch larger than the number of records held was refused, its first
\* ids being held already
C26_Witness ==
    /\ vret.op = "populate_from_vectors"
    /\ vret.raised = "DuplicateIDError"
    /\ collection.some
    /\ Len(collection.val) >= 1
    /\ Len(vret.results) > Len(collection.val)
    /\ vret.results[1] \in IdsOf(collection.val)


\* --------------------------- C29: a failed save destroys the saved record
\* C29: when save_session opens the file of a session that has a saved
\* record and the dump raises part-way, save_session returns False, the
\* session in memory is as it was, the file holds partial content and no
\* longer the record, and load_session of the id returns None.
C29_FailedSaveTruncates ==
    [][(/\ IsChatCall("save_session")
        /\ cret'.saved
        /\ cret'.fault = "write"
        /\ FileOf(files, cret'.session_id).kind = "json")
       => /\ ~cret'.ok
          /\ sessions' = sessions
          /\ current_session' = current_session
          /\ FileOf(files', cret'.session_id) = Partial
          /\ ~LoadOutcome(files', sessions', current_session', cret'.session_id,
                          Uuid(uuids + 1), now).out.some]_vars

\* a save of a session of two messages, whose file held the record of an
\* earlier save, failed part-way
C29_Witness ==
    /\ cret.op = "save_session"
    /\ cret.fault = "write"
    /\ cret.out.some
    /\ ~cret.ok
    /\ FileOf(files, cret.session_id) = Partial
    /\ current_session = Some(cret.session_id)
    /\ Len(Current.messages) = 2


\* ------------------------- C28: delete_session removes the record only
\* C28: a delete_session that succeeds leaves no record of the id
\* (load_session of it returns None, list_sessions does not list it) and
\* leaves the manager's current session as it was, also when that is the
\* session deleted; the add_message that follows the deletion of the
\* current session's record writes, with auto_save and a save that
\* succeeds, the record again; delete_session of an id without a file
\* returns False and changes nothing.
C28_DeleteRemovesRecordOnly ==
    [][/\ (IsChatCall("delete_session") /\ cret'.ok)
          => /\ ~LoadOutcome(files', sessions', current_session', cret'.session_id,
                             Uuid(uuids + 1), now).out.some
             /\ cret'.session_id \notin ListedIds(files')
             /\ sessions' = sessions
             /\ current_session' = current_session
       /\ (/\ IsChatCall("add_message")
           /\ cret.op = "delete_session" /\ cret.ok
           /\ current_session = Some(cret.session_id)
           /\ auto_save /\ cret'.fault = "none")
          => /\ current_session' = current_session
             /\ FileOf(files', cret.session_id) = Json(to_dict(Current'))
             /\ cret.session_id \in ListedIds(files')
       /\ (/\ IsChatCall("delete_session")
           /\ cret' # cret
           /\ cret'.session_id \notin DOMAIN files)
          => /\ ~cret'.ok
             /\ files' = files
             /\ sessions' = sessions
             /\ current_session' = current_session]_vars

\* the record of the current session, which holds a message, was deleted
C28_Witness ==
    /\ cret.op = "delete_session"
    /\ cret.ok
    /\ current_session = Some(cret.session_id)
    /\ Len(Current.messages) >= 1
    /\ cret.session_id \notin DOMAIN files
    /\ auto_save

====
